---------------------------- MODULE Spec2Model ----------------------------
(***************************************************************************)
(* Heads-up no-limit hold'em decision engine (src/server_fullgame.cjs, the *)
(* C++-realtime variant starting at line 425, with the shared action model *)
(* of src/lib/action_model.cjs).                                           *)
(*                                                                         *)
(* One session is modelled from its creation by POST /api/new_game.  The   *)
(* request handlers are split at the iterations of playToHuman and of the  *)
(* all-in runout loops, so that every intermediate hand state is a state   *)
(* of the model; pc is the handler's position.                             *)
(*                                                                         *)
(* Chips are JavaScript numbers.  Every amount the engine computes is a    *)
(* dyadic rational (the only non-integer operation is pot * 0.5), which a  *)
(* double holds exactly, so amounts are modelled exactly as integers in    *)
(* units of 1/UNIT chip.  HalvingExact states that no halving ever loses a *)
(* bit in the model.                                                       *)
(*                                                                         *)
(* Cards are abstracted: the Monte-Carlo hand strength hs read by a bot    *)
(* decision, the board texture bits and the EV-based / sampled pick among  *)
(* the guarded legal actions are inputs drawn from finite sets; the        *)
(* comparison of the two seven-card hands is drawn once per hand (handCmp).*)
(*                                                                         *)
(* Spec is the first hand of the session; SpecSession adds new_hand.       *)
(***************************************************************************)
EXTENDS Integers, Sequences, FiniteSets, TLC

(* ------------------------------ bounds -------------------------------- *)
FracBits == 1                \* fractional bits kept for chip amounts
MaxHands == 2                \* hands played in the session
MaxLegal == 5                \* largest action_index a client sends
MaxBeliefUpdates == 2        \* calls of updateRangeBeliefFromAction followed
MaxTracked == 4              \* actions of a hand followed with their belief updates
HandActionsBound == 16       \* actions of the longest hand that stacks of START_STACK allow
MaxSupport == 1              \* actions sharing the weight of a realtime policy
MaxIterations == 2           \* iterations the realtime solver's budget allows
TARGET_ITERS == 12           \* ITERS of the trainer (default 10000000)
CHECKPOINT_EVERY == 2        \* CHECKPOINT_EVERY (default 500000)
MIN_ITERS_BEFORE_STOP == 9   \* MIN_ITERS_BEFORE_STOP (default 1500000)
EVAL_HANDS_PER_PROFILE == 2  \* EVAL_HANDS_PER_PROFILE (default 2000)
MaxQueries == 3               \* queries made of the equity estimators
MaxSessions == 2              \* sessions created by /api/new_game
MaxSessionOps == 3            \* requests served over all the sessions
MaxRequests == 3              \* action requests sent to the solver-bridge server
BridgeFracBits == 8           \* binary places of its chip amounts

(* ------------------------ program constants --------------------------- *)
\* START_STACK is read from the environment (default 200); the stack-to-pot
\* thresholds 2, 3 and 4 of the bot's guards are all crossed at this depth
START_STACK == 20
SMALL_BLIND == 1
BIG_BLIND == 2
MAX_RAISES == 3
\* RT_TRIGGER_POT is read from the environment (default 60, with stacks of
\* 200); RT_TRIGGER_SPR is the default
RT_TRIGGER_POT == 6
RT_TRIGGER_SPR == 4
\* the human actions per hand after which the self-play harness gives a hand up
HARNESS_GUARD == 64

UNIT == 2 ^ FracBits         \* model units per chip

A == [FOLD |-> 0, CHECK |-> 1, CALL |-> 2, BET_HALF |-> 3, BET_POT |-> 4,
      RAISE_HALF |-> 5, RAISE_POT |-> 6, ALL_IN |-> 7]

actionNames == <<"FOLD", "CHECK", "CALL", "BET_HALF_POT", "BET_POT",
                 "RAISE_HALF_POT", "RAISE_POT", "ALL_IN">>

streets == <<"preflop", "flop", "turn", "river">>

profiles == <<"nit", "station", "aggro", "pot_odds">>

Seats == {0, 1}

Max(a, b) == IF a >= b THEN a ELSE b
Min(a, b) == IF a <= b THEN a ELSE b
Abs(a) == IF a >= 0 THEN a ELSE 0 - a

ToSet(s) == {s[i] : i \in 1..Len(s)}
Includes(s, a) == \E i \in 1..Len(s) : s[i] = a
Filter(s, Drop) == SelectSeq(s, LAMBDA a : a \notin Drop)

\* x * 0.5 on an amount in model units
Half(x) == x \div 2

\* Number(x.toFixed(2)) of an amount in model units, in hundredths of a chip:
\* round half away from zero
ToFixed2(x) ==
  LET m == (Abs(x) * 200 + UNIT) \div (2 * UNIT)
  IN  IF x >= 0 THEN m ELSE 0 - m

\* first letter of the action name, lower-cased, as applyAction appends it
HistoryChar(act) ==
  CASE act = A.FOLD -> "f"
    [] act = A.CHECK -> "k"
    [] act = A.CALL -> "c"
    [] act \in {A.BET_HALF, A.BET_POT} -> "b"
    [] act \in {A.RAISE_HALF, A.RAISE_POT} -> "r"
    [] act = A.ALL_IN -> "a"

(* ------------------- lib/action_model.cjs: legalActions ---------------- *)
ToCall(state, p) == Max(0, state.currentBet - state.commit[p])

\* legalActions that forgets the raise cap
legalActionsNoCap(state, maxRaises) ==
  IF state.terminal THEN <<>>
  ELSE
    LET p == state.toAct
        toCall == Max(0, state.currentBet - state.commit[p])
        stack == state.stack[p]
    IN  IF toCall <= 0
        THEN <<A.CHECK>> \o
             (IF stack > 0
              THEN IF state.streetIdx = 0 THEN <<A.RAISE_HALF, A.RAISE_POT, A.ALL_IN>>
                   ELSE <<A.BET_HALF, A.BET_POT, A.ALL_IN>>
              ELSE <<>>)
        ELSE <<A.FOLD, A.CALL>> \o
             (IF stack > toCall THEN <<A.RAISE_HALF, A.RAISE_POT, A.ALL_IN>> ELSE <<>>)

legalActionsShared(state, maxRaises) ==
  IF state.terminal THEN <<>>
  ELSE
    LET p == state.toAct
        toCall == ToCall(state, p)
        stack == state.stack[p]
        unopened == toCall <= 0
        isPreflop == state.streetIdx = 0
    IN  IF unopened
        THEN <<A.CHECK>> \o
             (IF stack > 0
              THEN IF isPreflop THEN <<A.RAISE_HALF, A.RAISE_POT, A.ALL_IN>>
                   ELSE <<A.BET_HALF, A.BET_POT, A.ALL_IN>>
              ELSE <<>>)
        ELSE <<A.FOLD, A.CALL>> \o
             (IF stack > toCall /\ state.raises < maxRaises
              THEN <<A.RAISE_HALF, A.RAISE_POT>> ELSE <<>>) \o
             (IF stack > toCall THEN <<A.ALL_IN>> ELSE <<>>)

legalActions(state) == legalActionsShared(state, MAX_RAISES)

(* ------------------- lib/action_model.cjs: actionTarget ---------------- *)
actionTargetShared(state, act, bigBlind) ==
  LET p == state.toAct
      toCall == ToCall(state, p)
      isPreflop == state.streetIdx = 0
      halfDesired == IF isPreflop THEN Max(toCall * 2, bigBlind * 2)
                     ELSE Max(toCall, Max(UNIT, Half(state.pot)))
      potDesired == IF isPreflop THEN Max(toCall * 3, bigBlind * 3)
                    ELSE Max(toCall, Max(UNIT, state.pot))
  IN  CASE act \in {A.FOLD, A.CHECK} -> state.commit[p]
        [] act = A.CALL -> state.commit[p] + Min(state.stack[p], toCall)
        [] act = A.BET_HALF ->
             state.commit[p] + Min(state.stack[p], Max(UNIT, Half(state.pot)))
        [] act = A.BET_POT ->
             state.commit[p] + Min(state.stack[p], Max(UNIT, state.pot))
        [] act = A.RAISE_HALF -> state.currentBet + Min(state.stack[p], halfDesired)
        [] act = A.RAISE_POT -> state.currentBet + Min(state.stack[p], potDesired)
        [] act = A.ALL_IN -> state.commit[p] + state.stack[p]
        [] OTHER -> state.commit[p]

actionTarget(state, act) == actionTargetShared(state, act, BIG_BLIND * UNIT)

(* --------------------------- session state ---------------------------- *)
VARIABLES
  state,        \* sess.state: the hand state record
  humanSeat,    \* sess.humanSeat
  handIndex,    \* sess.handIndex
  board,        \* sess.board: the public board, positions of sess.fullBoard
  handCmp,      \* PokerEvaluator's comparison of the two dealt hands
  resolved,     \* sess.resolved
  lastResult,   \* sess.lastResult (NoResult for null)
  score,        \* sess.score
  ENGINE_DIAG,  \* the module-level warning counters
  pc,           \* position of the request handler that is running, or "idle"
  caller,       \* the handler that is (or was last) running
  actions,      \* the bot_actions list of the request
  resp,         \* the last response sent
  rangeBeliefs, \* sess.rangeBeliefs: per seat, the weights weak, medium, strong
  beliefSeat,   \* the seat of the last updateRangeBeliefFromAction, or -1
  beliefCalls,  \* how many times updateRangeBeliefFromAction has run
  ENABLE_RT,    \* the realtime subgame is enabled (process.env.ENABLE_RT)
  rt_subgame,   \* what the last botAct of the request reports of the realtime
                \* subgame, with the policy it returned and the action picked
  stats,        \* sess.stats: the counters of the human's answers to bets
  events,       \* the belief reads and updates and the applyAction calls of the
                \* request being served, in the order they are made
  solver,       \* a call of solveRtSubgameDCFR: its locals and what it returned
  runs,         \* two runs of the trainer script: the locals of train() and
                \* the strategy file each has written
  equity,       \* the equity estimators: the trainer's cache and generator, and
                \* the queries made of either estimator with their results
  twin,         \* one hand played through the engine's state machine and the
                \* trainer's, action by action
  heap,         \* the sessions Map and the objects its sessions refer to
  bridge        \* a session of the solver-bridge server: its hand, and the
                \* action requests that have arrived for it

\* sess.rangeBeliefs and the last call of updateRangeBeliefFromAction: the
\* beliefs only feed botAct's estimates, which the hand's actions replace by
\* a free pick among the guarded legal actions, so they are followed on
\* their own, under SpecBelief
\* the opponent model of the session
beliefVars == <<rangeBeliefs, beliefSeat, beliefCalls, stats>>

\* what no request handler assigns: the process's switch, and the solver call
\* and the trainer's runs, which are followed on their own
fixedVars == <<ENABLE_RT, solver, runs, equity, twin, heap,
               bridge>>

\* the realtime subgame's switch and report
rtVars == <<fixedVars, rt_subgame>>

\* what the hand's actions do not follow
notFollowed == <<beliefVars, rtVars>>

\* what the requests leave alone unless they act
quietVars == <<notFollowed, events>>

vars == <<state, humanSeat, handIndex, board, handCmp, resolved, lastResult,
          score, ENGINE_DIAG, pc, caller, actions, resp, beliefVars, rtVars,
          events>>

\* the variables of the server's session and requests
serverVars == <<state, humanSeat, handIndex, board, handCmp, resolved, lastResult,
                score, ENGINE_DIAG, pc, caller, actions, resp, beliefVars,
                ENABLE_RT, rt_subgame, events>>

fullBoard == <<1, 2, 3, 4, 5>>

NoResult == [terminal_type |-> "none"]

\* The hole cards and the full board are fixed when the hand is dealt, and so
\* is the comparison of the two seven-card hands: seat 0 higher (0), seat 1
\* higher (1) or equal (-1).  Nothing reads it before settleTerminal evaluates
\* the hands, so the model draws it then and keeps it (NotEvaluated before).
NotEvaluated == "not evaluated"
HandComparisons == {0, 1, -1}
EvalHands(cmp) == IF cmp = NotEvaluated THEN HandComparisons ELSE {cmp}

(* ------------------- server_fullgame.cjs: applyAction ------------------ *)
\* the act applyAction works with: an impossible call is normalised to check
NormalizedAct(st, act) ==
  IF act = A.CALL /\ ToCall(st, st.toAct) <= 0 THEN A.CHECK ELSE act

\* commitChips that adds the uncapped payment to the pot
commitChipsPotUncapped(st, pay) ==
  LET p == st.toAct
      realPay == Min(pay, st.stack[p])
  IN  [st EXCEPT !.stack[p] = @ - realPay,
                 !.commit[p] = @ + realPay,
                 !.pot = @ + pay]

\* commitChips that does not cap the payment by the stack
commitChipsUncapped(st, pay) ==
  LET p == st.toAct
  IN  [st EXCEPT !.stack[p] = @ - pay,
                 !.commit[p] = @ + pay,
                 !.pot = @ + pay]

\* lines 1282-1286: pay what the stack allows, into commit and pot
commitChips(st, pay) ==
  LET p == st.toAct
      realPay == Min(pay, st.stack[p])
  IN  [st EXCEPT !.stack[p] = @ - realPay,
                 !.commit[p] = @ + realPay,
                 !.pot = @ + realPay]

applyAction(st, act0) ==
  LET p == st.toAct
      o == 1 - p
      act == NormalizedAct(st, act0)
      target == actionTarget(st, act)
      paid == [commitChips(st, target - st.commit[p]) EXCEPT
                 !.consecutiveChecks = 0,
                 !.history = Append(@, HistoryChar(act))]
      raised == [paid EXCEPT !.currentBet = paid.commit[p],
                             !.raises = @ + 1,
                             !.acted = [i \in Seats |-> i = p],
                             !.toAct = o]
  IN  CASE act = A.FOLD ->
             [st EXCEPT !.terminal = TRUE, !.winner = o,
                        !.history = Append(@, "f"), !.acted[p] = TRUE]
        [] act = A.CHECK ->
             [st EXCEPT !.history = Append(@, "k"),
                        !.consecutiveChecks = @ + 1,
                        !.toAct = o, !.acted[p] = TRUE]
        [] act \in {A.CALL, A.ALL_IN} ->
             IF paid.commit[p] > paid.currentBet
             THEN raised
             ELSE [paid EXCEPT !.acted[p] = TRUE, !.toAct = o]
        [] act \in {A.BET_HALF, A.BET_POT, A.RAISE_HALF, A.RAISE_POT} -> raised
        [] OTHER -> paid

\* the illegal_state_warnings applyAction raises: ILLEGAL_TARGET, NEGATIVE_STATE
applyActionWarnings(st, act0) ==
  LET p == st.toAct
      act == NormalizedAct(st, act0)
      target == actionTarget(st, act)
      after == applyAction(st, act0)
  IN  (IF target < st.commit[p] THEN 1 ELSE 0) +
      (IF act \notin {A.FOLD, A.CHECK} /\
          (after.stack[p] < 0 \/ after.commit[p] < 0 \/ after.pot < 0)
       THEN 1 ELSE 0)

(* --------------------- server_fullgame.cjs: newHand -------------------- *)
\* a hand that starts without the blinds
newHandStateBlindsNotPosted ==
  [streetIdx |-> 0,
   street |-> "preflop",
   pot |-> 0,
   currentBet |-> 0,
   commit |-> [i \in Seats |-> 0],
   stack |-> [i \in Seats |-> START_STACK * UNIT],
   raises |-> 0,
   consecutiveChecks |-> 0,
   acted |-> [i \in Seats |-> FALSE],
   history |-> <<>>,
   terminal |-> FALSE,
   winner |-> -1,
   toAct |-> 0]

\* a hand in which seat 1 has brought half a stack
newHandStateShortStack ==
  [streetIdx |-> 0,
   street |-> "preflop",
   pot |-> (SMALL_BLIND + BIG_BLIND) * UNIT,
   currentBet |-> BIG_BLIND * UNIT,
   commit |-> [i \in Seats |-> IF i = 0 THEN SMALL_BLIND * UNIT ELSE BIG_BLIND * UNIT],
   stack |-> [i \in Seats |-> IF i = 0 THEN (START_STACK - SMALL_BLIND) * UNIT
                              ELSE (START_STACK \div 2 - BIG_BLIND) * UNIT],
   raises |-> 0,
   consecutiveChecks |-> 0,
   acted |-> [i \in Seats |-> FALSE],
   history |-> <<>>,
   terminal |-> FALSE,
   winner |-> -1,
   toAct |-> 0]

newHandState ==
  [streetIdx |-> 0,
   street |-> "preflop",
   pot |-> (SMALL_BLIND + BIG_BLIND) * UNIT,
   currentBet |-> BIG_BLIND * UNIT,
   commit |-> [i \in Seats |-> IF i = 0 THEN SMALL_BLIND * UNIT ELSE BIG_BLIND * UNIT],
   stack |-> [i \in Seats |-> IF i = 0 THEN (START_STACK - SMALL_BLIND) * UNIT
                              ELSE (START_STACK - BIG_BLIND) * UNIT],
   raises |-> 0,
   consecutiveChecks |-> 0,
   acted |-> [i \in Seats |-> FALSE],
   history |-> <<>>,
   terminal |-> FALSE,
   winner |-> -1,
   toAct |-> 0]

(* ----------- server_fullgame.cjs: board and street progression --------- *)
ExpectedBoardLen(st) == CASE st.streetIdx = 1 -> 3
                          [] st.streetIdx = 2 -> 4
                          [] st.streetIdx = 3 -> 5
                          [] OTHER -> 0

\* slice that stops one card short
BoardSliceShort(n) == SubSeq(fullBoard, 1, n - 1)

BoardSlice(n) == SubSeq(fullBoard, 1, n)

enforceBoardInvariant(st, b) ==
  IF Len(b) # ExpectedBoardLen(st) THEN BoardSlice(ExpectedBoardLen(st)) ELSE b

enforceBoardWarnings(st, b) == IF Len(b) # ExpectedBoardLen(st) THEN 1 ELSE 0

\* advanceStreet that starts the history of the new street afresh
advanceStreetStateNewHistory(st) ==
  [st EXCEPT !.streetIdx = @ + 1,
             !.street = streets[st.streetIdx + 2],
             !.currentBet = 0,
             !.commit = [i \in Seats |-> 0],
             !.raises = 0,
             !.consecutiveChecks = 0,
             !.acted = [i \in Seats |-> FALSE],
             !.history = <<>>,
             !.toAct = 0]

advanceStreetState(st) ==
  [st EXCEPT !.streetIdx = @ + 1,
             !.street = streets[st.streetIdx + 2],
             !.currentBet = 0,
             !.commit = [i \in Seats |-> 0],
             !.raises = 0,
             !.consecutiveChecks = 0,
             !.acted = [i \in Seats |-> FALSE],
             !.toAct = 0]

advanceStreetBoard(st, b) ==
  LET idx == st.streetIdx + 1
      nb == IF idx \in {1, 2, 3} THEN BoardSlice(idx + 2) ELSE b
  IN  enforceBoardInvariant(advanceStreetState(st), nb)

\* a betting round that is never found closed
needsStreetAdvanceNever(st) == FALSE

\* needsStreetAdvance that does not ask whether both seats have acted
needsStreetAdvanceEvenOnly(st) ==
  /\ Abs(st.commit[0] - st.commit[1]) <= 0
  /\ Max(st.currentBet - st.commit[st.toAct], 0) <= 0

needsStreetAdvance(st) ==
  LET evenCommit == /\ Abs(st.commit[0] - st.commit[1]) <= 0
                    /\ Max(st.currentBet - st.commit[st.toAct], 0) <= 0
      bothActed == st.acted[0] /\ st.acted[1]
  IN  evenCommit /\ bothActed

\* bettingClosedAllIn with the all-in test negated
bettingClosedAllInNegated(st) ==
  /\ ~(st.stack[0] <= 0 \/ st.stack[1] <= 0)
  /\ Max(0, st.currentBet - st.commit[0]) <= 0
  /\ Max(0, st.currentBet - st.commit[1]) <= 0

bettingClosedAllIn(st) ==
  LET s0AllIn == st.stack[0] <= 0
      s1AllIn == st.stack[1] <= 0
  IN  /\ s0AllIn \/ s1AllIn
      /\ ToCall(st, 0) <= 0
      /\ ToCall(st, 1) <= 0

(* -------------------- server_fullgame.cjs: botAct ---------------------- *)
\* hand strength estimates (in thousandths) a decision may read: one value in
\* each interval cut by the thresholds of the guards and overrides
HsValues == {100, 300, 450, 560, 590, 620, 660, 690, 800}

\* boardTexture(sess.board): paired, wet = monotone or two-tone or connected,
\* dry = neither wet nor paired
Textures == {t \in [paired : BOOLEAN, wet : BOOLEAN, dry : BOOLEAN] :
               t.dry = (~t.wet /\ ~t.paired)}

PreflopTexture == [paired |-> FALSE, wet |-> FALSE, dry |-> TRUE]

TexturesAt(st) == IF st.streetIdx = 0 THEN {PreflopTexture} ELSE Textures

\* sprValue(state, seat) > num / den
SprGt(st, seat, num, den) ==
  IF st.pot > 0 THEN st.stack[seat] * den > num * Max(UNIT, st.pot) ELSE TRUE

\* a filter that drops the call together with the dominated fold
removeDominatedFoldAndCall(legal, toCall, pot, hs) ==
  IF ~Includes(legal, A.FOLD) THEN legal
  ELSE IF toCall <= 0 THEN legal
  ELSE IF hs * (pot + toCall) <= 1000 * toCall + 20 * (pot + toCall) THEN legal
  ELSE Filter(legal, {A.FOLD, A.CALL})

removeDominatedFold(legal, toCall, pot, hs) ==
  IF ~Includes(legal, A.FOLD) THEN legal
  ELSE IF toCall <= 0 THEN legal
  ELSE IF hs * (pot + toCall) <= 1000 * toCall + 20 * (pot + toCall) THEN legal
  ELSE Filter(legal, {A.FOLD})

\* lines 1456-1480: the guards botAct applies to the legal list
GuardedLegal(st, hs, tex) ==
  LET p == st.toAct
      toCall == ToCall(st, p)
      marginal == hs >= 400 /\ hs <= 650
      l1 == removeDominatedFold(legalActions(st), toCall, st.pot, hs)
      l2 == IF SprGt(st, p, 2, 1) /\ hs < 700 THEN Filter(l1, {A.ALL_IN}) ELSE l1
      l3 == IF SprGt(st, p, 10, 1) THEN Filter(l2, {A.ALL_IN}) ELSE l2
      l4 == IF hs < 600 THEN Filter(l3, {A.BET_POT, A.RAISE_POT}) ELSE l3
      l5 == IF tex.paired /\ hs > 400 /\ hs < 700 /\ SprGt(st, p, 2, 1)
            THEN Filter(l4, {A.RAISE_HALF, A.RAISE_POT, A.BET_POT, A.ALL_IN})
            ELSE l4
      l6 == IF tex.dry THEN Filter(l5, {A.BET_POT, A.RAISE_POT}) ELSE l5
      l7 == IF toCall > 0 /\ marginal /\ SprGt(st, p, 2, 1) /\ ~tex.wet
            THEN Filter(l6, {A.RAISE_HALF, A.RAISE_POT})
            ELSE IF marginal /\ SprGt(st, p, 3, 1)
                 THEN Filter(l6, {A.RAISE_POT})
                 ELSE l6
      l8 == IF toCall <= 0 /\ hs < 550 /\ SprGt(st, p, 4, 1)
            THEN Filter(l7, {A.BET_POT, A.RAISE_POT})
            ELSE l7
  IN  IF st.streetIdx > 0 THEN l8 ELSE l4

\* lines 1481-1484: an empty guarded list is replaced by the full legal list
RestoreIfEmpty(st, guarded) == IF Len(guarded) = 0 THEN legalActions(st) ELSE guarded

BotLegal(st, hs, tex) ==
  CHOOSE l \in {RestoreIfEmpty(st, g) : g \in {GuardedLegal(st, hs, tex)}} : TRUE

EmptyLegalWarnings(st, hs, tex) ==
  IF Len(GuardedLegal(st, hs, tex)) = 0 THEN 1 ELSE 0

NoAct == -1

\* an override that checks on a paired board without asking whether a bet
\* is faced
applyConservativeOverrideChecks(st, legal, chosen, hs, tex) ==
  IF tex.paired /\ hs > 400 /\ hs < 700 /\ SprGt(st, st.toAct, 2, 1)
  THEN A.CHECK
  ELSE chosen

applyConservativeOverride(st, legal, chosen, hs, tex) ==
  LET p == st.toAct
      toCall == ToCall(st, p)
      facing == toCall > 0
      den == Max(UNIT, st.pot + toCall)
      \* hs < reqEq + 0.18 with reqEq = toCall / max(1, pot + toCall), or 0
      belowReq18 == IF facing THEN hs * den < 1000 * toCall + 180 * den
                    ELSE hs < 180
      canCall == Includes(legal, A.CALL)
      canCheck == Includes(legal, A.CHECK)
      canBetHalf == Includes(legal, A.BET_HALF)
      canRaiseHalf == Includes(legal, A.RAISE_HALF)
      spr2 == SprGt(st, p, 2, 1)
      passive == IF facing /\ canCall THEN A.CALL
                 ELSE IF ~facing /\ canCheck THEN A.CHECK
                 ELSE NoAct
      downgrade == IF passive # NoAct THEN passive
                   ELSE IF ~facing /\ canBetHalf THEN A.BET_HALF
                   ELSE IF canCheck THEN A.CHECK
                   ELSE NoAct
      potSized == chosen \in {A.BET_POT, A.RAISE_POT}
      raiseFacing == chosen \in {A.RAISE_HALF, A.RAISE_POT} /\ facing
      betUnopened == chosen \in {A.BET_HALF, A.BET_POT} /\ ~facing /\ SprGt(st, p, 3, 1)
  IN  IF tex.paired /\ hs > 400 /\ hs < 700 /\ spr2 /\ passive # NoAct THEN passive
      ELSE IF chosen = A.ALL_IN /\ SprGt(st, p, 3, 2) /\ hs < 700 /\ passive # NoAct
        THEN passive
      ELSE IF potSized /\ tex.dry /\ hs < 680 /\ downgrade # NoAct THEN downgrade
      ELSE IF potSized /\ hs < 580 /\ spr2 /\ ~tex.wet /\ downgrade # NoAct THEN downgrade
      ELSE IF raiseFacing /\ belowReq18 /\ canCall THEN A.CALL
      ELSE IF raiseFacing /\ hs < 580 /\ spr2 /\ ~tex.wet /\ canCall THEN A.CALL
      ELSE IF raiseFacing /\ hs < 580 /\ spr2 /\ ~tex.wet /\ canRaiseHalf THEN A.RAISE_HALF
      ELSE IF betUnopened /\ hs < 550 /\ canCheck THEN A.CHECK
      ELSE IF betUnopened /\ tex.dry /\ hs < 600 /\ canCheck THEN A.CHECK
      ELSE chosen

\* bestAct of botAct: the pick among the guarded legal actions (by EV, by the
\* realtime subgame policy or by the preflop mix sample, each of which returns
\* an element of the list), then the conservative override postflop
BotChoices(st, hs, tex) ==
  UNION {IF st.streetIdx > 0
         THEN {applyConservativeOverride(st, legal, c, hs, tex) : c \in ToSet(legal)}
         ELSE ToSet(legal) : legal \in {BotLegal(st, hs, tex)}}

\* what one run of botAct can come to, over the estimates and textures it may
\* read: the action it picks and the EMPTY_LEGAL_SET warnings it raises
BotDecisions(st) ==
  UNION {{[action_index |-> a, warnings |-> EmptyLegalWarnings(st, d[1], d[2])] :
            a \in BotChoices(st, d[1], d[2])} : d \in HsValues \X TexturesAt(st)}

(* ------------- server_fullgame.cjs: the realtime subgame --------------- *)
\* shouldRunRtSubgame without the test of the street
shouldRunRtSubgameAnyStreet(st, seat, enabled) ==
  IF ~enabled THEN FALSE
  ELSE IF st.terminal THEN FALSE
  ELSE IF st.toAct # seat THEN FALSE
  ELSE IF bettingClosedAllIn(st) THEN FALSE
  ELSE IF st.pot >= RT_TRIGGER_POT * UNIT THEN TRUE
  ELSE st.pot > 0 /\ ~SprGt(st, seat, RT_TRIGGER_SPR, 1)

\* shouldRunRtSubgame(sess, seat, spr) with spr = sprValue(sess.state, seat),
\* which is finite when the pot is positive
shouldRunRtSubgame(st, seat, enabled) ==
  IF ~enabled THEN FALSE
  ELSE IF st.terminal THEN FALSE
  ELSE IF st.toAct # seat THEN FALSE
  ELSE IF ~(st.street = "turn" \/ st.street = "river") THEN FALSE
  ELSE IF bettingClosedAllIn(st) THEN FALSE
  ELSE IF st.pot >= RT_TRIGGER_POT * UNIT THEN TRUE
  ELSE st.pot > 0 /\ ~SprGt(st, seat, RT_TRIGGER_SPR, 1)

actionAggressionScore(act) ==
  CASE act = A.FOLD -> 0
    [] act = A.CHECK -> 1
    [] act = A.CALL -> 2
    [] act = A.BET_HALF -> 3
    [] act = A.RAISE_HALF -> 4
    [] act = A.BET_POT -> 5
    [] act = A.RAISE_POT -> 6
    [] act = A.ALL_IN -> 7
    [] OTHER -> 10

\* the best score among the legal actions
BestScore(legal, scores) ==
  CHOOSE v \in {scores[a + 1] : a \in ToSet(legal)} :
    \A a \in ToSet(legal) : scores[a + 1] <= v

\* pickActionByEV(legal, evByAct, tolerance) on scores[act + 1]: the least
\* aggressive of the actions within tolerance of the best score
pickActionByEV(legal, scores, tolerance) ==
  IF Len(legal) = 0 THEN NoAct
  ELSE CHOOSE picked \in
         {CHOOSE a \in nearBest :
            \A b \in nearBest : actionAggressionScore(a) <= actionAggressionScore(b) :
          nearBest \in
            {{a \in ToSet(legal) : bestEV - scores[a + 1] <= tolerance} :
               bestEV \in {BestScore(legal, scores)}}} : TRUE

\* Number((1 / k).toFixed(6)), in millionths
Millionths(k) == (2 * 1000000 + k) \div (2 * k)

\* policies solveRtSubgameDCFR can return for the list legal, entries in
\* millionths: the legal actions of a set share the weight, the others get 0;
\* the sets are those of up to MaxSupport actions and the whole list
RtOutputs(legal) ==
  {[i \in 1..Len(actionNames) |-> IF (i - 1) \in S THEN Millionths(Cardinality(S)) ELSE 0] :
     S \in {T \in SUBSET ToSet(legal) :
              T # {} /\ (Cardinality(T) <= MaxSupport \/ T = ToSet(legal))}}

\* no botAct has reported yet
NoRt == [used |-> FALSE, triggered |-> FALSE, probs |-> <<>>, bestAct |-> NoAct]

\* botAct lines 1504-1558 on the guarded list legal: the realtime subgame
\* when runRt, with bestAct picked from its policy, else the pick by EV; then
\* the conservative override postflop
BotRunsOn(st, hs, tex, legal, warn, runRt) ==
  LET final(c) == IF st.streetIdx > 0
                  THEN applyConservativeOverride(st, legal, c, hs, tex) ELSE c
  IN  IF runRt
      THEN UNION {{[action_index |-> final(best),
                    warnings |-> warn,
                    rt_subgame |-> [used |-> TRUE, triggered |-> TRUE, probs |-> pr,
                                    bestAct |-> best]] :
                     best \in {pickActionByEV(legal, pr, 1)}} :
                  pr \in RtOutputs(legal)}
      ELSE {[action_index |-> final(c),
             warnings |-> warn,
             rt_subgame |-> [used |-> FALSE, triggered |-> FALSE, probs |-> <<>>,
                             bestAct |-> NoAct]] : c \in ToSet(legal)}

\* botAct for one estimate and texture
BotRunsAt(st, enabled, hs, tex) ==
  UNION {BotRunsOn(st, hs, tex, legal, warn, runRt) :
           legal \in {BotLegal(st, hs, tex)},
           warn \in {EmptyLegalWarnings(st, hs, tex)},
           runRt \in {shouldRunRtSubgame(st, st.toAct, enabled)}}

\* what one run of botAct can come to, with its report of the realtime subgame
BotRuns(st, enabled) ==
  UNION {BotRunsAt(st, enabled, d[1], d[2]) : d \in HsValues \X TexturesAt(st)}

(* ------------------ server_fullgame.cjs: settleTerminal ---------------- *)
\* ShowdownWinner that gives equal hands to seat 0
ShowdownWinnerTieToSeat0(st, cmp) ==
  IF st.winner \in Seats THEN st.winner ELSE IF cmp = 1 THEN 1 ELSE 0

ShowdownWinner(st, cmp) == IF st.winner \in Seats THEN st.winner ELSE cmp

\* FinalStacks that splits the pot whoever the winner is
FinalStacksSplit(st, winner) ==
  [i \in Seats |-> st.stack[i] + Half(st.pot)]

FinalStacks(st, winner) ==
  [i \in Seats |-> IF winner \in Seats
                   THEN st.stack[i] + (IF i = winner THEN st.pot ELSE 0)
                   ELSE st.stack[i] + Half(st.pot)]

\* lines 1349-1384: settleTerminal past its first line
settleHand(sess) ==
  LET st == sess.state
      wasFold == Len(st.history) > 0 /\ st.history[Len(st.history)] = "f"
      winner == ShowdownWinner(st, sess.handCmp)
      finalStacks == FinalStacks(st, winner)
      humanEV == finalStacks[sess.humanSeat] - START_STACK * UNIT
      sc == [wins |-> sess.score.wins + (IF humanEV > 0 THEN 1 ELSE 0),
             losses |-> sess.score.losses + (IF humanEV < 0 THEN 1 ELSE 0),
             ties |-> sess.score.ties + (IF humanEV = 0 THEN 1 ELSE 0),
             net |-> sess.score.net + humanEV]
      result == [label |-> IF humanEV > 0 THEN "You win"
                           ELSE IF humanEV < 0 THEN "You lose" ELSE "Tie",
                 human_payoff |-> ToFixed2(humanEV),
                 winner |-> winner,
                 terminal_type |-> IF wasFold THEN "fold" ELSE "showdown",
                 final_stacks |-> [i \in Seats |-> ToFixed2(finalStacks[i])]]
  IN  [sess |-> [sess EXCEPT !.state.winner = winner, !.score = sc,
                             !.resolved = TRUE, !.lastResult = result],
       result |-> result]

\* settleTerminal without its first line
settleTerminalUnguarded(sess) == settleHand(sess)

\* settleTerminal that pays the pot out into the stacks of the hand state
settleTerminalPaysOut(sess) ==
  IF sess.resolved /\ sess.lastResult # NoResult
  THEN [sess |-> sess, result |-> sess.lastResult]
  ELSE LET r == settleHand(sess)
       IN  [r EXCEPT !.sess.state.stack = FinalStacks(sess.state, r.result.winner),
                     !.sess.state.pot = 0]

\* the session after settleTerminal(sess) and the result it returns
settleTerminal(sess) ==
  IF sess.resolved /\ sess.lastResult # NoResult
  THEN [sess |-> sess, result |-> sess.lastResult]
  ELSE settleHand(sess)

\* settleTerminal(sess) evaluates the two hands: it is not answered from
\* sess.lastResult and no fold has named the winner
EvaluatesHands(sess) ==
  /\ ~(sess.resolved /\ sess.lastResult # NoResult)
  /\ sess.state.winner \notin Seats

\* the comparisons a call of settleTerminal(sess) may find
Comparisons(sess) ==
  IF EvaluatesHands(sess) THEN EvalHands(sess.handCmp) ELSE {sess.handCmp}

\* the fields of the session settleTerminal reads and writes
Sess == [state |-> state, humanSeat |-> humanSeat, handCmp |-> handCmp,
         resolved |-> resolved, lastResult |-> lastResult, score |-> score]

(* ------------------- server_fullgame.cjs: buildPayload ----------------- *)
buildPayload(st, hSeat, hIdx, terminal, result) ==
  LET awaitingHuman == ~terminal /\ st.toAct = hSeat /\ ~st.terminal
      legal == legalActions(st)
  IN  [ok |-> TRUE,
       error |-> "",
       hand_index |-> hIdx,
       awaiting_human_action |-> awaitingHuman,
       legal_actions |-> IF awaitingHuman
                         THEN [i \in 1..Len(legal) |->
                                 [index |-> legal[i],
                                  size |-> ToFixed2(actionTarget(st, legal[i]))]]
                         ELSE <<>>,
       terminal |-> terminal,
       result |-> result]

ErrorResponse(msg) ==
  [ok |-> FALSE, error |-> msg, hand_index |-> -1,
   awaiting_human_action |-> FALSE, legal_actions |-> <<>>,
   terminal |-> FALSE, result |-> NoResult]

\* no response sent yet for the request being handled
Pending == ErrorResponse("pending")

(* ------------------------------ Init ---------------------------------- *)
\* POST /api/new_game up to the call of playToHuman: a fresh session holding
\* its first hand
(* ---------- IEEE 754 binary64 arithmetic of the belief updates ---------- *)
\* A finite double is [neg, hi, lo, exp]: the 53-bit significand hi * 2^30 + lo
\* (2^52 <= significand < 2^53) times 2^exp; zero has significand 0 and exp 0.
\* Intermediate integers below 2^60 are pairs [hi, lo] with lo < 2^30.
\* An operand that is used more than once is bound, as x \in {e}, so that it
\* is computed once.
W30 == 2 ^ 30

Wide(h, l) == [hi |-> h, lo |-> l]

WZero == Wide(0, 0)

WAdd(p, q) ==
  Wide(p.hi + q.hi + ((p.lo + q.lo) \div W30), (p.lo + q.lo) % W30)

\* p - q for p >= q
WSub(p, q) ==
  IF p.lo >= q.lo THEN Wide(p.hi - q.hi, p.lo - q.lo)
  ELSE Wide(p.hi - q.hi - 1, p.lo + W30 - q.lo)

WGe(p, q) == p.hi > q.hi \/ (p.hi = q.hi /\ p.lo >= q.lo)

\* floor(p / 2^k)
WShr(p, k) ==
  IF k >= 60 THEN WZero
  ELSE IF k >= 30 THEN Wide(0, p.hi \div (2 ^ (k - 30)))
  ELSE Wide(p.hi \div (2 ^ k),
            (p.lo \div (2 ^ k)) + (p.hi % (2 ^ k)) * (2 ^ (30 - k)))

\* whether p has a one among its k lowest bits
WLost(p, k) ==
  IF k >= 60 THEN p # WZero
  ELSE IF k >= 30 THEN p.lo # 0 \/ p.hi % (2 ^ (k - 30)) # 0
  ELSE p.lo % (2 ^ k) # 0

\* p * 2^k, for a product below 2^60
WShl(p, k) ==
  IF k >= 30 THEN Wide(p.lo * (2 ^ (k - 30)), 0)
  ELSE Wide(p.hi * (2 ^ k) + (p.lo \div (2 ^ (30 - k))),
            (p.lo % (2 ^ (30 - k))) * (2 ^ k))

RECURSIVE BitLen(_)
BitLen(n) == IF n = 0 THEN 0 ELSE 1 + BitLen(n \div 2)

WBitLen(p) == IF p.hi > 0 THEN 30 + BitLen(p.hi) ELSE BitLen(p.lo)

FZero == [neg |-> FALSE, hi |-> 0, lo |-> 0, exp |-> 0]

IsZero(x) == x.hi = 0 /\ x.lo = 0

\* the double nearest to (-1)^neg * s * 2^e for s of len bits, ties to the
\* even significand
RoundBits(neg, s, len, e) ==
  IF len = 0 THEN FZero
  ELSE IF len <= 53
  THEN LET m == WShl(s, 53 - len)
       IN  [neg |-> neg, hi |-> m.hi, lo |-> m.lo, exp |-> e - (53 - len)]
  ELSE LET k == len - 53
           q == WShr(s, k)
           rem == WSub(s, WShl(q, k))
           half == WShl(Wide(0, 1), k - 1)
           up == \/ rem.hi > half.hi
                 \/ rem.hi = half.hi /\ rem.lo > half.lo
                 \/ rem = half /\ q.lo % 2 = 1
           r == IF up THEN WAdd(q, Wide(0, 1)) ELSE q
       IN  IF r.hi = 2 ^ 23
           THEN [neg |-> neg, hi |-> r.hi \div 2, lo |-> 0, exp |-> e + k + 1]
           ELSE [neg |-> neg, hi |-> r.hi, lo |-> r.lo, exp |-> e + k]

RoundPack(neg, s0, e) ==
  CHOOSE x \in {RoundBits(neg, p[1], p[2], e) :
                  p \in {<<s, WBitLen(s)>> : s \in {s0}}} : TRUE

FNeg(x0) ==
  CHOOSE r \in {IF IsZero(x) THEN x ELSE [x EXCEPT !.neg = ~x.neg] : x \in {x0}} : TRUE

\* |x| >= |y| for non-zero doubles
MagGe(x, y) == x.exp > y.exp \/ (x.exp = y.exp /\ WGe(x, y))

\* x + y for non-zero x and y, correctly rounded: three guard bits, the last
\* one sticky
AddRounded(x, y) ==
  LET a == IF MagGe(x, y) THEN x ELSE y
      b == IF MagGe(x, y) THEN y ELSE x
      d == a.exp - b.exp
      ma == WShl(Wide(a.hi, a.lo), 3)
      mb0 == WShl(Wide(b.hi, b.lo), 3)
      shifted == WShr(mb0, d)
      mb == IF WLost(mb0, d) /\ shifted.lo % 2 = 0
            THEN WAdd(shifted, Wide(0, 1)) ELSE shifted
  IN  IF a.neg = b.neg THEN RoundPack(a.neg, WAdd(ma, mb), a.exp - 3)
      ELSE RoundPack(a.neg, WSub(ma, mb), a.exp - 3)

FAdd(x0, y0) ==
  CHOOSE r \in {IF IsZero(x) THEN y ELSE IF IsZero(y) THEN x ELSE AddRounded(x, y) :
                  x \in {x0}, y \in {y0}} : TRUE

FSub(x, y) == FAdd(x, FNeg(y))

\* one step of the long division of the significands: the next quotient bit
\* of r / m for a remainder r < m
DivStep(d, m) ==
  CHOOSE n \in {IF WGe(r2, m) THEN [q |-> WAdd(q2, Wide(0, 1)), r |-> WSub(r2, m)]
                ELSE [q |-> q2, r |-> r2] :
                  r2 \in {WAdd(d.r, d.r)}, q2 \in {WAdd(d.q, d.q)}} : TRUE

DivStep5(d, m) ==
  CHOOSE n \in {DivStep(d4, m) : d4 \in {DivStep(d3, m) : d3 \in
               {DivStep(d2, m) : d2 \in {DivStep(d1, m) : d1 \in
               {DivStep(d0, m) : d0 \in {d}}}}}} : TRUE

\* 5 * i more quotient bits; a remainder of zero leaves only zero bits
RECURSIVE DivBits(_, _, _)
DivBits(d, m, i) ==
  IF i = 0 THEN d
  ELSE CHOOSE x \in {IF n.r = WZero THEN [q |-> WShl(n.q, 5 * (i - 1)), r |-> WZero]
                     ELSE DivBits(n, m, i - 1) : n \in {DivStep5(d, m)}} : TRUE

\* x / y for non-zero x and y, correctly rounded: 55 fraction bits of the
\* quotient of the significands and a sticky bit for the remainder
DivRounded(x, y) ==
  LET mx == Wide(x.hi, x.lo)
      my == Wide(y.hi, y.lo)
      first == WGe(mx, my)
  IN  CHOOSE r \in {RoundPack(x.neg # y.neg,
                              WAdd(WAdd(d.q, d.q),
                                   IF d.r = WZero THEN WZero ELSE Wide(0, 1)),
                              x.exp - y.exp - 56) :
                      d \in {DivBits([q |-> IF first THEN Wide(0, 1) ELSE WZero,
                                      r |-> IF first THEN WSub(mx, my) ELSE mx],
                                     my, 11)}} : TRUE

\* x / y for y # 0
FDiv(x0, y0) ==
  CHOOSE r \in {IF IsZero(x) THEN FZero ELSE DivRounded(x, y) :
                  x \in {x0}, y \in {y0}} : TRUE

\* x <= y
FLe(x, y) == \E d \in {FSub(x, y)} : IsZero(d) \/ d.neg

\* Math.max(0, x)
FMax0(x0) == CHOOSE r \in {IF x.neg THEN FZero ELSE x : x \in {x0}} : TRUE

\* the double of a non-negative integer below 2^30
FromInt(n) == RoundPack(FALSE, Wide(0, n), 0)

\* the double a decimal literal n / d denotes: the one nearest to the quotient
Lit(n, d) == FDiv(FromInt(n), FromInt(d))

(* --------------- server_fullgame.cjs: opponent range beliefs ----------- *)
\* the doubles of the literals 0.00, 0.01, ... 0.34, and of 1e-9 and 1
Hundredths == [c \in 0 .. 34 |-> Lit(c, 100)]

Epsilon == Lit(1, 1000000000)

One == FromInt(1)

(* ---------- products and decimal conversions of doubles ---------- *)
\* A product of two significands has 106 bits: it is computed on limbs of 15
\* bits, so that no intermediate integer reaches 2^31.
B15 == 2 ^ 15

\* the four limbs of a significand, lowest first
Limbs4(m) == <<m.lo % B15, m.lo \div B15, m.hi % B15, m.hi \div B15>>

\* the sum of the partial products of weight 2^(15 * k): the low halves of
\* the products x[i] * y[j] with i + j = k and the high halves of those with
\* i + j = k - 1
Column(x, y, k) ==
  LET Lo(i) == IF k - i \in 0 .. 3 THEN (x[i + 1] * y[k - i + 1]) % B15 ELSE 0
      Hi(i) == IF k - 1 - i \in 0 .. 3 THEN (x[i + 1] * y[k - i]) \div B15 ELSE 0
  IN  Lo(0) + Lo(1) + Lo(2) + Lo(3) + Hi(0) + Hi(1) + Hi(2) + Hi(3)

RECURSIVE Carry(_, _, _)
Carry(S, k, c) ==
  IF k > 8 THEN <<>>
  ELSE CHOOSE r \in {<<t % B15>> \o Carry(S, k + 1, t \div B15) :
                       t \in {S[k] + c}} : TRUE

\* the eight limbs of the product of two four-limb integers, lowest first
MulLimbs(x, y) ==
  CHOOSE r \in {Carry(S, 1, 0) :
                  S \in {<<Column(x, y, 0), Column(x, y, 1), Column(x, y, 2),
                           Column(x, y, 3), Column(x, y, 4), Column(x, y, 5),
                           Column(x, y, 6), Column(x, y, 7)>>}} : TRUE

\* the double nearest to (-1)^neg * P * 2^e for a product P of two
\* significands: the 58 highest bits of P and a sticky bit for the 48 lowest
MulRounded(neg, P0, e) ==
  CHOOSE r \in {RoundPack(neg,
                          WAdd(WShl(Wide((b \div 8) + P[8] * (2 ^ 27),
                                         (a \div 8) + (b % 8) * (2 ^ 27)), 1),
                               Wide(0, IF P[1] # 0 \/ P[2] # 0 \/ P[3] # 0 \/ a % 8 # 0
                                       THEN 1 ELSE 0)),
                          e + 47) :
                  P \in {P0}, a \in {P0[4] + P0[5] * B15},
                  b \in {P0[6] + P0[7] * B15}} : TRUE

\* x * y
FMul(x0, y0) ==
  CHOOSE r \in {IF IsZero(x) \/ IsZero(y) THEN FZero
                ELSE MulRounded(x.neg # y.neg, MulLimbs(Limbs4(x), Limbs4(y)),
                                x.exp + y.exp) :
                  x \in {x0}, y \in {y0}} : TRUE

\* the limbs of 10^6 and of 10^8
Ten6 == <<1000000 % B15, 1000000 \div B15, 0, 0>>

Ten8 == <<100000000 % B15, 100000000 \div B15, 0, 0>>

\* the integer n for which n / 10^f is nearest to |x|, the larger one of two:
\* the digits that x.toFixed(f) prints, for |x| * 10^f below 2^28 and ten the
\* limbs of 10^f. With P the product of the significand and 10^f, n is
\* (floor(P / 2^sh) + 1) div 2 for sh = -x.exp - 1.
FixedDigits(P0, sh) ==
  LET q == sh \div 15
      r == sh % 15
  IN  IF q > 7 THEN 0
      ELSE CHOOSE n \in {((P[q + 1] \div (2 ^ r)) + P[q + 2] * (2 ^ (15 - r))
                          + P[q + 3] * (2 ^ (30 - r)) + 1) \div 2 :
                           P \in {P0 \o <<0, 0>>}} : TRUE

toFixed(x0, ten) ==
  CHOOSE n \in {IF IsZero(x) THEN 0
                ELSE FixedDigits(MulLimbs(Limbs4(x), ten), (0 - x.exp) - 1) :
                  x \in {x0}} : TRUE

initialRangeBelief ==
  [weak |-> Hundredths[34], medium |-> Hundredths[33], strong |-> Hundredths[33]]

\* out.weak + out.medium + out.strong
BeliefSum(b) == FAdd(FAdd(b.weak, b.medium), b.strong)

\* the weights divided by their sum s, or the initial belief for no weight
Normalized(out, s) ==
  IF FLe(s, Epsilon) THEN initialRangeBelief
  ELSE [weak |-> FDiv(out.weak, s),
        medium |-> FDiv(out.medium, s),
        strong |-> FDiv(out.strong, s)]

\* normalizeRangeBelief that does not clamp the weights at zero
normalizeRangeBeliefUnclamped(belief) ==
  CHOOSE r \in {Normalized(p[1], p[2]) :
                  p \in {<<out, BeliefSum(out)>> : out \in {belief}}} : TRUE

normalizeRangeBelief(belief) ==
  CHOOSE r \in {Normalized(p[1], p[2]) :
                  p \in {<<out, BeliefSum(out)>> :
                           out \in {[weak |-> FMax0(b.weak),
                                     medium |-> FMax0(b.medium),
                                     strong |-> FMax0(b.strong)] : b \in {belief}}}} : TRUE

ensureRangeBeliefs(beliefs) == [i \in Seats |-> normalizeRangeBelief(beliefs[i])]

\* the shifts of weak, medium and strong, in hundredths
BeliefShift(act, facingBet) ==
  LET isAggressive == act \in {A.BET_HALF, A.BET_POT, A.RAISE_HALF,
                               A.RAISE_POT, A.ALL_IN}
  IN  IF facingBet
      THEN IF act = A.FOLD THEN [weak |-> 20, medium |-> 4, strong |-> -24]
           ELSE IF act = A.CALL \/ act = A.CHECK
           THEN [weak |-> -5, medium |-> 12, strong |-> -7]
           ELSE IF isAggressive THEN [weak |-> -16, medium |-> -4, strong |-> 20]
           ELSE [weak |-> 0, medium |-> 0, strong |-> 0]
      ELSE IF act = A.CHECK THEN [weak |-> 10, medium |-> 2, strong |-> -12]
           ELSE IF isAggressive THEN [weak |-> -12, medium |-> -2, strong |-> 14]
           ELSE [weak |-> 0, medium |-> 0, strong |-> 0]

\* x += c / 100 or x -= -c / 100
Shifted(x, c) ==
  IF c > 0 THEN FAdd(x, Hundredths[c])
  ELSE IF c < 0 THEN FSub(x, Hundredths[-c])
  ELSE x

updateRangeBeliefFromAction(rb, seat, act, toCallBefore) ==
  LET shift == BeliefShift(act, toCallBefore > 0)
  IN  CHOOSE r \in
        {[beliefs EXCEPT ![seat] =
            normalizeRangeBelief([weak |-> Shifted(beliefs[seat].weak, shift.weak),
                                  medium |-> Shifted(beliefs[seat].medium, shift.medium),
                                  strong |-> Shifted(beliefs[seat].strong, shift.strong)])] :
           beliefs \in {ensureRangeBeliefs(rb)}} : TRUE


(* ------ server_fullgame.cjs: order of belief calls and applyAction ----- *)
\* botAct applying action act for seat p: getRangeBelief(sess, oppSeat) for the
\* equity estimate (line 1447), then applyAction before the belief update
BotEventsApplyFirst(p, act) ==
  <<[kind |-> "read", seat |-> 1 - p, act |-> NoAct],
    [kind |-> "apply", seat |-> p, act |-> act],
    [kind |-> "update", seat |-> p, act |-> act]>>

\* botAct applying action act for seat p: getRangeBelief(sess, oppSeat) for the
\* equity estimate (line 1447), updateRangeBeliefFromAction (line 1560),
\* applyAction (line 1561)
BotEvents(p, act) ==
  <<[kind |-> "read", seat |-> 1 - p, act |-> NoAct],
    [kind |-> "update", seat |-> p, act |-> act],
    [kind |-> "apply", seat |-> p, act |-> act]>>

\* botAct with apply: false (the preview)
PreviewEvents(p) == <<[kind |-> "read", seat |-> 1 - p, act |-> NoAct]>>

\* /api/action: updateRangeBeliefFromAction(sess, sess.humanSeat, humanAct, ..)
\* (line 1807), then applyAction(sess.state, humanAct) (line 1808), which acts
\* for state.toAct
HumanEvents(human, toAct, act) ==
  <<[kind |-> "update", seat |-> human, act |-> act],
    [kind |-> "apply", seat |-> toAct, act |-> act]>>

(* --------------- server_fullgame.cjs: the session's stats -------------- *)
defaultPostflopStreetStats ==
  [facing_bet |-> 0, fold_vs_bet |-> 0, call_vs_bet |-> 0, raise_vs_bet |-> 0]

\* ensureSessionStats on a session without stats
ensureSessionStats ==
  [human_facing_raise_preflop |-> 0,
   human_threebet_preflop |-> 0,
   human_call_vs_raise_preflop |-> 0,
   postflop |-> [s \in {"flop", "turn", "river"} |-> defaultPostflopStreetStats]]

\* the human's raises
IsRaise(act) == act \in {A.RAISE_HALF, A.RAISE_POT, A.ALL_IN}

\* /api/action, lines 1784-1804: the human's action humanAct in state st is
\* counted in the stats
recordStats(s, st, human, humanAct) ==
  LET toCallBefore == Max(0, st.currentBet - st.commit[human])
      raisesBefore == st.raises
  IN  IF st.streetIdx = 0
      THEN IF toCallBefore > 0 /\ raisesBefore >= 1
           THEN [s EXCEPT
                   !.human_facing_raise_preflop = @ + 1,
                   !.human_call_vs_raise_preflop =
                      IF humanAct = A.CALL THEN @ + 1 ELSE @,
                   !.human_threebet_preflop =
                      IF IsRaise(humanAct) THEN @ + 1 ELSE @]
           ELSE s
      ELSE IF st.street \in DOMAIN s.postflop /\ toCallBefore > 0
           THEN [s EXCEPT
                   !.postflop[st.street].facing_bet = @ + 1,
                   !.postflop[st.street].fold_vs_bet =
                      IF humanAct = A.FOLD THEN @ + 1 ELSE @,
                   !.postflop[st.street].call_vs_bet =
                      IF humanAct = A.CALL THEN @ + 1 ELSE @,
                   !.postflop[st.street].raise_vs_bet =
                      IF IsRaise(humanAct) THEN @ + 1 ELSE @]
           ELSE s

(* ---------------- solveRtSubgameDCFR, lines 892-999 ---------------------- *)
\* the doubles of the literals 1e-12 and 2, and of RT_PRIOR_WEIGHT's default
Tiny == [neg |-> FALSE, hi |-> 4611686, lo |-> 19786257, exp |-> -92]

Two == FromInt(2)

RT_PRIOR_WEIGHT == Lit(65, 100)

\* Math.pow(t, 1.5) and Math.pow(t, 0.5) for t = 1 .. 14: the doubles nearest
\* to the powers
Pow15 ==
  <<[neg |-> FALSE, hi |-> 4194304, lo |-> 0, exp |-> -52],
    [neg |-> FALSE, hi |-> 5931641, lo |-> 645872589, exp |-> -51],
    [neg |-> FALSE, hi |-> 5448560, lo |-> 776092032, exp |-> -50],
    [neg |-> FALSE, hi |-> 4194304, lo |-> 0, exp |-> -49],
    [neg |-> FALSE, hi |-> 5861718, lo |-> 41808338, exp |-> -49],
    [neg |-> FALSE, hi |-> 7705428, lo |-> 504213958, exp |-> -49],
    [neg |-> FALSE, hi |-> 4854974, lo |-> 882416077, exp |-> -48],
    [neg |-> FALSE, hi |-> 5931641, lo |-> 645872589, exp |-> -48],
    [neg |-> FALSE, hi |-> 7077888, lo |-> 0, exp |-> -48],
    [neg |-> FALSE, hi |-> 8289721, lo |-> 160494119, exp |-> -48],
    [neg |-> FALSE, hi |-> 4781883, lo |-> 96353396, exp |-> -47],
    [neg |-> FALSE, hi |-> 5448560, lo |-> 776092032, exp |-> -47],
    [neg |-> FALSE, hi |-> 6143628, lo |-> 663689494, exp |-> -47],
    [neg |-> FALSE, hi |-> 6865971, lo |-> 255539040, exp |-> -47]>>

Pow05 ==
  <<[neg |-> FALSE, hi |-> 4194304, lo |-> 0, exp |-> -52],
    [neg |-> FALSE, hi |-> 5931641, lo |-> 645872589, exp |-> -52],
    [neg |-> FALSE, hi |-> 7264747, lo |-> 676875434, exp |-> -52],
    [neg |-> FALSE, hi |-> 4194304, lo |-> 0, exp |-> -51],
    [neg |-> FALSE, hi |-> 4689374, lo |-> 462943400, exp |-> -51],
    [neg |-> FALSE, hi |-> 5136952, lo |-> 336142638, exp |-> -51],
    [neg |-> FALSE, hi |-> 5548542, lo |-> 701692138, exp |-> -51],
    [neg |-> FALSE, hi |-> 5931641, lo |-> 645872589, exp |-> -51],
    [neg |-> FALSE, hi |-> 6291456, lo |-> 0, exp |-> -51],
    [neg |-> FALSE, hi |-> 6631776, lo |-> 987388755, exp |-> -51],
    [neg |-> FALSE, hi |-> 6955466, lo |-> 335376180, exp |-> -51],
    [neg |-> FALSE, hi |-> 7264747, lo |-> 676875434, exp |-> -51],
    [neg |-> FALSE, hi |-> 7561389, lo |-> 73488883, exp |-> -51],
    [neg |-> FALSE, hi |-> 7846824, lo |-> 292044617, exp |-> -51]>>

\* the array f[1], ... f[n], each entry computed once
RECURSIVE Take(_, _)
Take(f, n) == IF n = 0 THEN <<>> ELSE Append(Take(f, n - 1), f[n])

\* arr.reduce((acc, v) => acc + v, 0)
RECURSIVE FSumFrom(_, _, _)
FSumFrom(arr, i, acc) ==
  IF i > Len(arr) THEN acc ELSE FSumFrom(arr, i + 1, FAdd(acc, arr[i]))

FSum(arr) == FSumFrom(arr, 1, FZero)

\* arr.map((v) => Math.max(0, v))
Positive(arr) == Take([i \in 1..Len(arr) |-> FMax0(arr[i])], Len(arr))

\* arr.map((v) => v / z)
Scaled(arr, z0) ==
  CHOOSE r \in {Take([i \in 1..Len(arr) |-> FDiv(arr[i], z)], Len(arr)) :
                  z \in {z0}} : TRUE

\* priorProbs of null
NoPrior == <<>>

\* toLegalPrior(legal, priorProbs)
toLegalPrior(legal, priorProbs) ==
  CHOOSE r \in {IF FLe(FSum(arr), Tiny)
                THEN Take([i \in 1..Len(legal) |->
                             FDiv(One, FromInt(Max(1, Len(legal))))], Len(legal))
                ELSE Scaled(arr, FSum(arr)) :
                  arr \in {Take([i \in 1..Len(legal) |->
                                   IF priorProbs = NoPrior THEN FZero
                                   ELSE FMax0(priorProbs[legal[i] + 1])],
                                Len(legal))}} : TRUE

\* lines 954-961: the regret-matching strategy blended with the prior and
\* normalised again
BlendedStrategy(positive, posSum0, priorLegal) ==
  CHOOSE r \in {Scaled(st, IF IsZero(FSum(st)) THEN One ELSE FSum(st)) :
                  st \in {Take([i \in 1..Len(positive) |->
                                  FAdd(FMul(FSub(One, RT_PRIOR_WEIGHT),
                                            FDiv(positive[i], posSum)),
                                       FMul(RT_PRIOR_WEIGHT, priorLegal[i]))],
                               Len(positive)) : posSum \in {posSum0}}} : TRUE

\* lines 948-962: the strategy of an iteration
RtStrategy(regrets, priorLegal) ==
  CHOOSE r \in {IF FLe(FSum(positive), Tiny) THEN priorLegal
                ELSE BlendedStrategy(positive, FSum(positive), priorLegal) :
                  positive \in {Positive(regrets)}} : TRUE

\* lines 970-971: nodeUtil += strategy[i] * util[i]
RECURSIVE NodeUtilFrom(_, _, _, _)
NodeUtilFrom(strategy, util, i, acc) ==
  IF i > Len(strategy) THEN acc
  ELSE NodeUtilFrom(strategy, util, i + 1, FAdd(acc, FMul(strategy[i], util[i])))

\* lines 972-976: the discounts of iteration t
posDisc(t) == FDiv(Pow15[t], FAdd(Pow15[t], One))

negDisc(t) == FDiv(Pow05[t], FAdd(Pow05[t], Two))

\* line 979: the regret is discounted by the sign of the difference, then the
\* difference is added
DiscountedRegret(regret, diff0, t) ==
  CHOOSE r \in {FAdd(FMul(regret, IF diff.neg THEN negDisc(t) ELSE posDisc(t)), diff) :
                  diff \in {diff0}} : TRUE

\* one iteration of the loop, lines 946-982, with the utilities util
RtIterate(s, util) ==
  CHOOSE r \in
    {[s EXCEPT
        !.iterations = s.iterations + 1,
        !.regrets = Take([i \in 1..Len(s.legal) |->
                            DiscountedRegret(s.regrets[i], FSub(util[i], nodeUtil),
                                             Max(1, s.iterations + 1))],
                         Len(s.legal)),
        !.strategySum = Take([i \in 1..Len(s.legal) |->
                                FAdd(s.strategySum[i], strategy[i])], Len(s.legal))] :
       nodeUtil \in {NodeUtilFrom(strategy, util, 1, FZero) :
                       strategy \in {RtStrategy(s.regrets, s.priorLegal)}},
       strategy \in {RtStrategy(s.regrets, s.priorLegal)}} : TRUE

\* lines 984-994 without the division by the sum
RtPolicyUnnormalised(legal, strategySum, priorLegal) ==
  CHOOSE out \in
    {[a \in 1..Len(actionNames) |->
        IF \E i \in 1..Len(legal) : legal[i] = a - 1
        THEN LET i == CHOOSE j \in 1..Len(legal) : legal[j] = a - 1
             IN  IF FLe(FSum(pos), Tiny) THEN priorLegal[i] ELSE pos[i]
        ELSE FZero] :
       pos \in {Positive(strategySum)}} : TRUE

\* lines 984-994: out, the average strategy on the legal actions and zero
\* elsewhere
RtPolicy(legal, strategySum, priorLegal) ==
  CHOOSE out \in
    {[a \in 1..Len(actionNames) |->
        IF \E i \in 1..Len(legal) : legal[i] = a - 1
        THEN LET i == CHOOSE j \in 1..Len(legal) : legal[j] = a - 1
             IN  IF FLe(sum, Tiny) THEN priorLegal[i] ELSE FDiv(pos[i], sum)
        ELSE FZero] :
       pos \in {Positive(strategySum)}, sum \in {FSum(Positive(strategySum))}} : TRUE

\* line 997: out.map((v) => Number(v.toFixed(6))), each entry by the digits
\* toFixed prints: the entry is the double of digits / 10^6
RtProbs(out0) ==
  CHOOSE r \in {Take([a \in 1..Len(out) |-> toFixed(out[a], Ten6)], Len(out)) :
                  out \in {out0}} : TRUE

\* no call of the solver is under way
SolverIdle ==
  [pc |-> "idle", legal |-> <<>>, priorLegal |-> <<>>, regrets |-> <<>>,
   strategySum |-> <<>>, iterations |-> 0, expired |-> FALSE, probs |-> <<>>]

\* lists legalActions returns postflop; priors of the blueprint, in hundredths
SolverLegal == {<<A.FOLD, A.CALL>>, <<A.FOLD, A.CALL, A.ALL_IN>>,
                <<A.CHECK, A.BET_HALF, A.BET_POT, A.ALL_IN>>}

SolverPriors ==
  {NoPrior, <<Hundredths[10], Hundredths[20], Hundredths[30], Hundredths[5],
              Hundredths[5], Hundredths[0], Hundredths[0], Hundredths[30]>>}

\* what subgameLeafEV plus the noise comes to for an action
SolverUtils == {FNeg(Lit(7, 10)), Lit(13, 10)}

(* ------------- scripts/train_blueprint_v1_postflop.cjs ------------------- *)
\* makeRng, lines 39-45: the generator's state s is a 32-bit integer, kept as
\* its two halves <<s div 2^16, s mod 2^16>>
B16 == 2 ^ 16

\* initial >>> 0, for 0 <= initial < 2^31
ToUint32(n) == <<n \div B16, n % B16>>

makeRng(initial) ==
  IF ToUint32(initial) = <<0, 0>> THEN <<0, 1>> ELSE ToUint32(initial)

\* s = (1664525 * s + 1013904223) >>> 0, with 1664525 = 25 * 2^16 + 26125 and
\* 1013904223 = 15470 * 2^16 + 62303
NextRng(s) ==
  CHOOSE r \in {<<(26125 * s[1] + 25 * s[2] + 15470 + (low \div B16)) % B16, low % B16>> :
                  low \in {26125 * s[2] + 62303}} : TRUE

\* Math.floor(rand() * n) for the state s the call of rand() has just left:
\* rand() is s / 2^32, and its product with n < 2^15 is exact
RandFloor(s, n) == (s[1] * n + ((s[2] * n) \div B16)) \div B16

\* randInt(rand, n), lines 47-49: the generator's next state and the integer
randInt(s0, n) ==
  CHOOSE d \in {[rng |-> s, v |-> RandFloor(s, n)] : s \in {NextRng(s0)}} : TRUE

\* the double s / 4294967296 that rand() returns
RandDouble(s) ==
  RoundPack(FALSE, Wide(s[1] \div (2 ^ 14), (s[1] % (2 ^ 14)) * B16 + s[2]), -32)

\* weights[a], for the list legal
WeightsOf(legal, weights) ==
  Take([i \in 1..Len(legal) |-> FMax0(weights[legal[i] + 1])], Len(legal))

\* lines 69-73: r -= weight until r <= 0
RECURSIVE SampleFrom(_, _, _, _)
SampleFrom(legal, w, i, r0) ==
  IF i > Len(legal) THEN legal[Len(legal)]
  ELSE CHOOSE a \in {IF IsZero(r) \/ r.neg THEN legal[i]
                     ELSE SampleFrom(legal, w, i + 1, r) :
                       r \in {FSub(r0, w[i])}} : TRUE

\* sampleActionByWeights(legal, weights, rand), lines 64-75
SampleWith(legal, w0, s0) ==
  CHOOSE d \in
    {IF FLe(sum, Tiny) THEN [rng |-> s, v |-> legal[RandFloor(s, Len(legal)) + 1]]
     ELSE [rng |-> s, v |-> SampleFrom(legal, w, 1, FMul(RandDouble(s), sum))] :
       w \in {w0}, sum \in {FSum(w0)}, s \in {NextRng(s0)}} : TRUE

sampleActionByWeights(legal, weights, s) ==
  SampleWith(legal, WeightsOf(legal, weights), s)

\* what terminalUtility returns at the end of a hand, in big blinds
Payoffs == <<FNeg(One), FZero, Two>>

\* The hand createHandContext deals and runPreflopToPostflop plays is one
\* draw of the generator: the hand ends before the flop, or it reaches a
\* postflop decision of seat player at the infoset key with the list legal.
\* The subtree below that decision is one draw per legal action.
Deals ==
  <<[ends |-> TRUE, key |-> "", player |-> 0, legal |-> <<>>],
    [ends |-> FALSE, key |-> "kA", player |-> 0, legal |-> <<A.FOLD, A.CALL, A.ALL_IN>>],
    [ends |-> FALSE, key |-> "kB", player |-> 1, legal |-> <<A.CHECK, A.BET_HALF>>],
    [ends |-> FALSE, key |-> "kB", player |-> 1, legal |-> <<A.CHECK, A.BET_HALF>>]>>

Zeros8 == [a \in 1..Len(actionNames) |-> FZero]

\* ensureNode, lines 393-405: the node table is the list of its nodes in the
\* order they were added
NodeIndex(nodeMap, key) ==
  IF \E i \in 1..Len(nodeMap) : nodeMap[i].key = key
  THEN CHOOSE i \in 1..Len(nodeMap) : nodeMap[i].key = key
  ELSE 0

ensureNode(nodeMap, key) ==
  IF NodeIndex(nodeMap, key) # 0 THEN nodeMap
  ELSE Append(nodeMap, [key |-> key, regrets |-> Zeros8, strategySum |-> Zeros8,
                        legalSeen |-> [a \in 1..Len(actionNames) |-> FALSE],
                        visits |-> 0])

\* the entries of arr at the actions of legal, and an array of 8 that holds
\* vals at the actions of legal and zero elsewhere
AtLegal(legal, arr) == Take([i \in 1..Len(legal) |-> arr[legal[i] + 1]], Len(legal))

Spread(legal, vals0) ==
  CHOOSE r \in
    {Take([a \in 1..Len(actionNames) |->
             IF \E i \in 1..Len(legal) : legal[i] = a - 1
             THEN vals[CHOOSE i \in 1..Len(legal) : legal[i] = a - 1]
             ELSE FZero], Len(actionNames)) : vals \in {vals0}} : TRUE

\* currentStrategy(node, legal), lines 408-423
currentStrategy(node, legal) ==
  CHOOSE r \in
    {Spread(legal,
            IF FLe(FSum(v), Tiny)
            THEN Take([i \in 1..Len(legal) |->
                         FDiv(One, FromInt(Max(1, Len(legal))))], Len(legal))
            ELSE Scaled(v, FSum(v))) :
       v \in {Positive(AtLegal(legal, node.regrets))}} : TRUE

\* lines 462-468: one utility per legal action, each from the recursive call
\* on the state after that action
RECURSIVE DrawUtils(_, _, _)
DrawUtils(n, s0, util) ==
  IF n = 0 THEN [rng |-> s0, util |-> util]
  ELSE CHOOSE r \in {DrawUtils(n - 1, d.rng, Append(util, Payoffs[d.v + 1])) :
                       d \in {randInt(s0, Len(Payoffs))}} : TRUE

\* lines 454-458: the visit counted, the legal actions marked as seen and the
\* strategy added to the strategy sum
Visited(node, legal, strategy0) ==
  CHOOSE r \in
    {[node EXCEPT
        !.visits = @ + 1,
        !.legalSeen = [a \in 1..Len(actionNames) |->
                         @[a] \/ \E i \in 1..Len(legal) : legal[i] = a - 1],
        !.strategySum = Take([a \in 1..Len(actionNames) |->
                                IF \E i \in 1..Len(legal) : legal[i] = a - 1
                                THEN FAdd(@[a], strategy[a]) ELSE @[a]],
                             Len(actionNames))] :
       strategy \in {strategy0}} : TRUE

\* lines 469-471: node.regrets[a] += util[a] - nodeUtil
RegretsAdded(regrets, legal, util0, nodeUtil0) ==
  CHOOSE r \in
    {Take([a \in 1..Len(actionNames) |->
             IF \E i \in 1..Len(legal) : legal[i] = a - 1
             THEN FAdd(regrets[a],
                       FSub(util[CHOOSE i \in 1..Len(legal) : legal[i] = a - 1],
                            nodeUtil))
             ELSE regrets[a]], Len(actionNames)) :
       util \in {util0}, nodeUtil \in {nodeUtil0}} : TRUE

\* cfr at a decision of the traverser, lines 460-472
CfrTraverser(nodeMap, i, deal, strategy0, drawn) ==
  CHOOSE r \in
    {[nodeMap |-> [nodeMap EXCEPT
                     ![i] = [Visited(@, deal.legal, strategy) EXCEPT
                               !.regrets = RegretsAdded(@, deal.legal, drawn.util,
                                                        nodeUtil)]],
      rng |-> drawn.rng,
      event |-> [kind |-> "traverser", key |-> deal.key, legal |-> deal.legal,
                 sampled |-> NoAct, util |-> drawn.util, nodeUtil |-> nodeUtil]] :
       strategy \in {strategy0},
       nodeUtil \in {NodeUtilFrom(AtLegal(deal.legal, strategy0), drawn.util, 1, FZero)}} :
    TRUE

\* cfr at a decision of the other seat, lines 474-477
CfrOpponent(nodeMap, i, deal, strategy0, s) ==
  CHOOSE r \in
    {[nodeMap |-> [nodeMap EXCEPT ![i] = Visited(@, deal.legal, strategy)],
      rng |-> sampled.rng,
      event |-> [kind |-> "opponent", key |-> deal.key, legal |-> deal.legal,
                 sampled |-> sampled.v, util |-> <<>>, nodeUtil |-> FZero]] :
       strategy \in {strategy0},
       sampled \in {sampleActionByWeights(deal.legal, strategy0, s)}} : TRUE

\* cfr(ctx, ctx.state, traverser, rand, nodeMap, equityCache), lines 434-478,
\* at the decision the hand reaches
cfr(nodeMap0, deal, traverser, s) ==
  CHOOSE r \in
    {IF deal.player = traverser
     THEN CfrTraverser(nodeMap, NodeIndex(nodeMap, deal.key), deal,
                       currentStrategy(nodeMap[NodeIndex(nodeMap, deal.key)], deal.legal),
                       DrawUtils(Len(deal.legal), s, <<>>))
     ELSE CfrOpponent(nodeMap, NodeIndex(nodeMap, deal.key), deal,
                      currentStrategy(nodeMap[NodeIndex(nodeMap, deal.key)], deal.legal),
                      s) :
       nodeMap \in {ensureNode(nodeMap0, deal.key)}} : TRUE

\* the actions a node has seen legal, lowest first
RECURSIVE SeenFrom(_, _)
SeenFrom(legalSeen, a) ==
  IF a > Len(legalSeen) THEN <<>>
  ELSE (IF legalSeen[a] THEN <<a - 1>> ELSE <<>>) \o SeenFrom(legalSeen, a + 1)

\* probs.map((x) => Number(x.toFixed(f))), each entry by the digits toFixed
\* prints: the entry is the double of digits / 10^f
Digits(probs0, ten) ==
  CHOOSE r \in {Take([a \in 1..Len(probs) |-> toFixed(probs[a], ten)], Len(probs)) :
                  probs \in {probs0}} : TRUE

\* lines 484-499 with the sum never tested: the strategy sum is divided by
\* its sum even when that is zero, and a division by zero leaves zeros
ExportNodeNoFallback(node) ==
  CHOOSE r \in
    {IF seen = <<>> THEN <<>>
     ELSE IF IsZero(FSum(v)) THEN Digits(Zeros8, Ten8)
     ELSE Digits(Spread(seen, Scaled(v, FSum(v))), Ten8) :
       seen \in {SeenFrom(node.legalSeen, 1)},
       v \in {Positive(AtLegal(SeenFrom(node.legalSeen, 1), node.strategySum))}} : TRUE

\* exportPolicy, lines 483-500, for one node: the vector of 8 entries;
\* <<>> when the node is skipped
ExportNode(node) ==
  CHOOSE r \in
    {IF FLe(FSum(v), Tiny)
     THEN IF seen = <<>> THEN <<>>
          ELSE Digits(Spread(seen, Take([i \in 1..Len(seen) |->
                                           FDiv(One, FromInt(Len(seen)))],
                                        Len(seen))), Ten8)
     ELSE Digits(Spread(seen, Scaled(v, FSum(v))), Ten8) :
       seen \in {SeenFrom(node.legalSeen, 1)},
       v \in {Positive(AtLegal(SeenFrom(node.legalSeen, 1), node.strategySum))}} : TRUE

\* exportPolicy(nodeMap), lines 480-503: the entries of the policy object in
\* the order of its keys
RECURSIVE exportPolicy(_)
exportPolicy(nodeMap) ==
  IF nodeMap = <<>> THEN <<>>
  ELSE CHOOSE r \in
         {(IF probs = <<>> THEN <<>>
           ELSE <<[key |-> Head(nodeMap).key, probs |-> probs]>>)
          \o exportPolicy(Tail(nodeMap)) :
            probs \in {ExportNode(Head(nodeMap))}} : TRUE

\* lastPolicy of null
NoPolicy == "null"

\* policy[key], or an array of zeros
ProbsAt(policy, key) ==
  IF \E i \in 1..Len(policy) : policy[i].key = key
  THEN policy[CHOOSE i \in 1..Len(policy) : policy[i].key = key].probs
  ELSE [a \in 1..Len(actionNames) |-> 0]

HasKey(policy, key) == \E i \in 1..Len(policy) : policy[i].key = key

\* the double of an entry of a policy
Hundredmillionth(n) == Lit(n, 100000000)

FAbs(x) == [x EXCEPT !.neg = FALSE]

\* line 516: l1 += Math.abs((q[i] || 0) - (p[i] || 0)), over the 8 entries
RECURSIVE L1From(_, _, _, _)
L1From(p, q, i, l1) ==
  IF i > Len(actionNames) THEN l1
  ELSE L1From(p, q, i + 1,
              IF p[i] = q[i] THEN FAdd(l1, FZero)
              ELSE FAdd(l1, FAbs(FSub(Hundredmillionth(q[i]), Hundredmillionth(p[i])))))

\* the keys of prevPolicy, then the keys of nextPolicy that are new
DriftKeys(prevPolicy, nextPolicy) ==
  [i \in 1..Len(prevPolicy) |-> prevPolicy[i].key]
  \o SelectSeq([i \in 1..Len(nextPolicy) |-> nextPolicy[i].key],
               LAMBDA k : ~HasKey(prevPolicy, k))

RECURSIVE TotalL1From(_, _, _, _, _)
TotalL1From(prevPolicy, nextPolicy, keys, i, totalL1) ==
  IF i > Len(keys) THEN totalL1
  ELSE TotalL1From(prevPolicy, nextPolicy, keys, i + 1,
                   FAdd(totalL1, L1From(ProbsAt(prevPolicy, keys[i]),
                                        ProbsAt(nextPolicy, keys[i]), 1, FZero)))

\* avg_l1 of null
NoDrift == -1

\* policyDrift(prevPolicy, nextPolicy), lines 505-525; avg_l1 by the digits
\* toFixed(6) prints
policyDrift(prevPolicy, nextPolicy) ==
  IF prevPolicy = NoPolicy
  THEN [avg_l1 |-> NoDrift, keys |-> Len(nextPolicy), new_keys |-> Len(nextPolicy)]
  ELSE CHOOSE r \in
         {[avg_l1 |-> IF Len(keys) > 0
                      THEN toFixed(FDiv(TotalL1From(prevPolicy, nextPolicy, keys, 1, FZero),
                                        FromInt(Len(keys))), Ten6)
                      ELSE 0,
           keys |-> Len(keys),
           new_keys |-> Cardinality({i \in 1..Len(keys) : ~HasKey(prevPolicy, keys[i])})] :
            keys \in {DriftKeys(prevPolicy, nextPolicy)}} : TRUE

\* x.toFixed(4) of a double of either sign, as a signed count of 1 / 10^4
Ten4 == <<10000, 0, 0, 0>>

SignedFixed4(x0) ==
  CHOOSE n \in {IF x.neg THEN 0 - toFixed(x, Ten4) ELSE toFixed(x, Ten4) : x \in {x0}} : TRUE

\* the double of Number(x.toFixed(4))
TenThousandth(n) == IF n < 0 THEN FNeg(Lit(0 - n, 10000)) ELSE Lit(n, 10000)

\* lines 619-640: the hands of one profile, each worth what terminalUtility
\* returns for the bot; the play of a hand by the policy against the profile
\* is one draw of the profile's generator
RECURSIVE SumEvFrom(_, _, _)
SumEvFrom(h, s0, sumEv) ==
  IF h = 0 THEN sumEv
  ELSE CHOOSE r \in {SumEvFrom(h - 1, d.rng, FAdd(sumEv, Payoffs[d.v + 1])) :
                       d \in {randInt(s0, Len(Payoffs))}} : TRUE

\* line 641: evPerHand of the profile i
EvPerHand(evalSeed, i) ==
  SignedFixed4(FDiv(SumEvFrom(EVAL_HANDS_PER_PROFILE, makeRng(evalSeed + i * 100003), FZero),
                    FromInt(Max(1, EVAL_HANDS_PER_PROFILE))))

RECURSIVE EvTotalFrom(_, _, _)
EvTotalFrom(evalSeed, i, total) ==
  IF i >= Len(profiles) THEN total
  ELSE EvTotalFrom(evalSeed, i + 1, FAdd(total, TenThousandth(EvPerHand(evalSeed, i))))

\* evaluatePolicy(policy, evalSeed).aggregate.avg_bot_ev_per_hand, lines
\* 611-656
evaluatePolicy(policy, evalSeed) ==
  SignedFixed4(FDiv(EvTotalFrom(evalSeed, 0, FZero), FromInt(Max(1, Len(profiles)))))

DRIFT_PLATEAU_THRESHOLD == Lit(15, 1000)

EV_PLATEAU_THRESHOLD == Lit(2, 100)

\* the double of a drift of digits / 10^6
Millionth(n) == Lit(n, 1000000)

SeqMax(s) == CHOOSE x \in ToSet(s) : \A y \in ToSet(s) : y <= x

SeqMin(s) == CHOOSE x \in ToSet(s) : \A y \in ToSet(s) : x <= y

\* shouldStopByPlateau with the last two checkpoints in the place of the
\* last three
shouldStopByPlateauLastTwo(checkpoints) ==
  IF Len(checkpoints) < 2 THEN FALSE
  ELSE LET last3 == SubSeq(checkpoints, Len(checkpoints) - 1, Len(checkpoints))
           evValues == [i \in 1..Len(last3) |-> last3[i].eval]
       IN  IF \E i \in 1..Len(last3) : last3[i].policy_drift_avg_l1 = NoDrift THEN FALSE
           ELSE /\ \A i \in 1..Len(last3) :
                     FLe(Millionth(last3[i].policy_drift_avg_l1), DRIFT_PLATEAU_THRESHOLD)
                /\ FLe(FSub(TenThousandth(SeqMax(evValues)),
                            TenThousandth(SeqMin(evValues))), EV_PLATEAU_THRESHOLD)

\* shouldStopByPlateau(checkpoints), lines 658-666
shouldStopByPlateau(checkpoints) ==
  IF Len(checkpoints) < 3 THEN FALSE
  ELSE LET last3 == SubSeq(checkpoints, Len(checkpoints) - 2, Len(checkpoints))
           evValues == [i \in 1..Len(last3) |-> last3[i].eval]
       IN  IF \E i \in 1..Len(last3) : last3[i].policy_drift_avg_l1 = NoDrift THEN FALSE
           ELSE /\ \A i \in 1..Len(last3) :
                     FLe(Millionth(last3[i].policy_drift_avg_l1), DRIFT_PLATEAU_THRESHOLD)
                /\ FLe(FSub(TenThousandth(SeqMax(evValues)),
                            TenThousandth(SeqMin(evValues))), EV_PLATEAU_THRESHOLD)

\* stopReason, and the file that is not written yet
NoFile == "none"

Runs == {1, 2}

\* the seeds and the clock readings a run starts at
Seeds == {0, 14, 16, 20, 51, 219, 1337, 1577}

Starts == {0, 1000}

\* train(), lines 697-705: the locals before the loop
NewRun(seed, startedMs) ==
  [pc |-> "loop", SEED |-> seed, startedMs |-> startedMs, iter |-> 0,
   rng |-> makeRng(seed), nodeMap |-> <<>>, trainedHands |-> 0,
   stopReason |-> "target_iterations_reached", lastPolicy |-> NoPolicy,
   checkpoints |-> <<>>, completedIterations |-> 0, saved |-> NoFile,
   trace |-> <<>>]

\* line 725 with the clock in the place of the seed
EvalSeedFromClock(t) == t.startedMs + t.iter * 17

\* line 725: SEED + iter * 17
EvalSeed(t) == t.SEED + t.iter * 17

\* the clock of a run: one tick for every iteration since it started
Now(t) == t.startedMs + t.iter

\* lines 720-740: the checkpoint of the iteration, with the policy that the
\* checkpoint's file holds
Checkpoint(t, policy0) ==
  CHOOSE c \in
    {[iter |-> t.iter, trained_hands |-> t.trainedHands, infosets |-> Len(t.nodeMap),
      policy_drift_avg_l1 |-> drift.avg_l1, policy_keys |-> drift.keys,
      policy_new_keys |-> drift.new_keys,
      eval |-> evaluatePolicy(policy, EvalSeed(t)),
      timestamp |-> Now(t), policy |-> policy] :
       policy \in {policy0}, drift \in {policyDrift(t.lastPolicy, policy0)}} : TRUE

\* lines 718-767: the checkpoint is pushed, and training breaks off on a
\* plateau
Checkpointed(t, policy0) ==
  CHOOSE r \in
    {IF t.iter >= MIN_ITERS_BEFORE_STOP /\ shouldStopByPlateau(checkpoints)
     THEN [t EXCEPT !.checkpoints = checkpoints, !.lastPolicy = policy,
                    !.stopReason = "plateau_reached", !.pc = "break"]
     ELSE [t EXCEPT !.checkpoints = checkpoints, !.lastPolicy = policy] :
       policy \in {policy0},
       checkpoints \in {Append(t.checkpoints, Checkpoint(t, policy0))}} : TRUE

\* lines 713-718: cfr has run on the hand
Trained(t, iter, c0) ==
  CHOOSE r \in
    {IF iter % CHECKPOINT_EVERY # 0 THEN t2 ELSE Checkpointed(t2, exportPolicy(t2.nodeMap)) :
       t2 \in {[t EXCEPT !.iter = iter, !.rng = c.rng, !.nodeMap = c.nodeMap,
                         !.trainedHands = @ + 1, !.completedIterations = iter,
                         !.trace = Append(@, c.event)] : c \in {c0}}} : TRUE

\* the body of the loop for the next value of iter, lines 708-768
TrainBody(t) ==
  CHOOSE r \in
    {IF Deals[d.v + 1].ends
     THEN [t EXCEPT !.iter = @ + 1, !.rng = d.rng,
                    !.trace = Append(@, [kind |-> "preflop", key |-> "", legal |-> <<>>,
                                         sampled |-> NoAct, util |-> <<>>,
                                         nodeUtil |-> FZero])]
     ELSE Trained(t, t.iter + 1,
                  cfr(t.nodeMap, Deals[d.v + 1], (t.iter + 1) % 2, d.rng)) :
       d \in {randInt(t.rng, Len(Deals))}} : TRUE

\* lines 769-779: the final policy and the strategy file
Saved(t) ==
  [t EXCEPT
     !.pc = "done",
     !.saved = [iterations |-> t.completedIterations,
                policy |-> IF t.lastPolicy # NoPolicy THEN t.lastPolicy
                           ELSE exportPolicy(t.nodeMap),
                checkpoints |-> t.checkpoints, stop_reason |-> t.stopReason,
                seed |-> t.SEED, started_at |-> t.startedMs, finished_at |-> Now(t) + 1]]

\* ---- the equity estimators ----

\* canonicalCards, lines 204-206 of the trainer: cards.slice().sort(); the
\* cards are numbered in the order of their names
canonicalCards(cards) ==
  CHOOSE s \in [1..Len(cards) -> ToSet(cards)] :
    \A i, j \in 1..Len(cards) : i < j => s[i] < s[j]

\* the outcomes of a trial: hero's hand beats, ties or loses to the sampled
\* opponent's on the sampled board
TrialOutcomes == <<"win", "tie", "loss">>

\* (wins + 0.5 * ties) / total
EquityOf(wins, ties, total) == FDiv(Lit(2 * wins + ties, 2), FromInt(total))

\* lines 224-236 of the trainer: the trials of a rollout, each drawing its
\* opponent and board from rand
RECURSIVE RolloutFrom(_, _, _, _, _)
RolloutFrom(t, trials, s0, wins, ties) ==
  IF t >= trials THEN [rng |-> s0, hs |-> EquityOf(wins, ties, trials)]
  ELSE CHOOSE r \in
         {RolloutFrom(t + 1, trials, d.rng,
                      wins + (IF TrialOutcomes[d.v + 1] = "win" THEN 1 ELSE 0),
                      ties + (IF TrialOutcomes[d.v + 1] = "tie" THEN 1 ELSE 0)) :
            d \in {randInt(s0, Len(TrialOutcomes))}} : TRUE

\* the keys of the trainer's cache: evalStrengthRandomRange writes t= before
\* the trial count (line 210), estimateHsCached does not (line 427)
CacheKey(hand, cards, trials, inner) ==
  [hero |-> canonicalCards(hand), board |-> canonicalCards(cards), trials |-> trials,
   inner |-> inner]

\* cache.has(key), cache.get(key), cache.set(key, hs) on a Map kept as the
\* set of its entries
CacheHas(cache, key) == \E e \in cache : e.key = key

CacheGet(cache, key) == (CHOOSE e \in cache : e.key = key).hs

CacheSet(cache, key, hs) == {e \in cache : e.key # key} \cup {[key |-> key, hs |-> hs]}

\* evalStrengthRandomRange, lines 208-241; the hands asked about have two
\* cards
evalStrengthRandomRange(heroHand, cards, trials, s, cache) ==
  IF CacheHas(cache, CacheKey(heroHand, cards, trials, TRUE))
  THEN [hs |-> CacheGet(cache, CacheKey(heroHand, cards, trials, TRUE)), rng |-> s,
        cache |-> cache, rollouts |-> 0]
  ELSE CHOOSE r \in
         {[hs |-> ro.hs, rng |-> ro.rng,
           cache |-> CacheSet(cache, CacheKey(heroHand, cards, trials, TRUE), ro.hs),
           rollouts |-> 1] : ro \in {RolloutFrom(0, trials, s, 0, 0)}} : TRUE

\* estimateHsCached, lines 425-432
estimateHsCached(hand, cards, trials, s, cache) ==
  IF CacheHas(cache, CacheKey(hand, cards, trials, FALSE))
  THEN [hs |-> CacheGet(cache, CacheKey(hand, cards, trials, FALSE)), rng |-> s,
        cache |-> cache, rollouts |-> 0]
  ELSE CHOOSE r \in
         {[e EXCEPT !.cache = CacheSet(@, CacheKey(hand, cards, trials, FALSE), e.hs)] :
            e \in {evalStrengthRandomRange(hand, cards, trials, s, cache)}} : TRUE

\* evalStrength of the server, lines 619-655, for two hero cards and no known
\* opponent hand: every trial draws from Math.random, so a rollout can end
\* with any numbers of wins and ties
evalStrength(heroHand, cards, trials) ==
  {[eq |-> EquityOf(c.wins, c.ties, trials), samples |-> trials] :
     c \in {x \in [wins : 0..trials, ties : 0..trials] : x.wins + x.ties <= trials}}

\* the hands, boards and trial counts asked about: a hand in both orders of
\* its cards and a flop in two orders
EquityHands == {<<1, 2>>, <<2, 1>>}

EquityBoards == {<<3, 4, 5>>, <<5, 3, 4>>}

EquityTrials == {1, 2}

\* nothing asked yet: the trainer's cache is a new Map and its generator is
\* seeded
EquityIdle == [cache |-> {}, cacheNo |-> 1, rng |-> makeRng(1337), log |-> <<>>]

\* the trainer's hand after the blinds, createHandContext, lines 331-345
trainerInitialState ==
  [streetIdx |-> 0,
   street |-> "preflop",
   pot |-> (SMALL_BLIND + BIG_BLIND) * UNIT,
   currentBet |-> BIG_BLIND * UNIT,
   commit |-> [i \in Seats |-> IF i = 0 THEN SMALL_BLIND * UNIT ELSE BIG_BLIND * UNIT],
   stack |-> [i \in Seats |-> IF i = 0 THEN (START_STACK - SMALL_BLIND) * UNIT
                              ELSE (START_STACK - BIG_BLIND) * UNIT],
   raises |-> 0,
   acted |-> [i \in Seats |-> FALSE],
   history |-> <<>>,
   terminal |-> FALSE,
   winner |-> -1,
   toAct |-> 0,
   board |-> <<>>]

\* the same hand at its start in the engine, the human in seat h, and in the
\* trainer
TwinStart(h) ==
  [eng |-> newHandState, trn |-> trainerInitialState, human |-> h,
   caller |-> "new_game", last |-> -1]

\* newHand of the solver-bridge server, lines 203-223: the hand state
bridgeNewHand ==
  [streetIdx |-> 0,
   street |-> "preflop",
   pot |-> (SMALL_BLIND + BIG_BLIND) * 2 ^ BridgeFracBits,
   currentBet |-> BIG_BLIND * 2 ^ BridgeFracBits,
   commit |-> [i \in Seats |-> (IF i = 0 THEN SMALL_BLIND ELSE BIG_BLIND)
                                 * 2 ^ BridgeFracBits],
   stack |-> [i \in Seats |-> (START_STACK - (IF i = 0 THEN SMALL_BLIND ELSE BIG_BLIND))
                                * 2 ^ BridgeFracBits],
   raises |-> 0,
   consecutiveChecks |-> 0,
   history |-> <<>>,
   terminal |-> FALSE,
   winner |-> -1,
   toAct |-> 0]

\* no application of an action
NotApplied == [human |-> FALSE, seat |-> -1]

\* the session /api/new_game of the solver-bridge server answers with (lines
\* 317-325), the human in seat h, and no action request yet
BridgeStart(h) ==
  [state |-> bridgeNewHand,
   humanSeat |-> h,
   score |-> [wins |-> 0, losses |-> 0, ties |-> 0],
   pc |-> [r \in 1 .. MaxRequests |-> "new"],
   actor |-> 0,
   applied |-> NotApplied]

\* const sessions = new Map(), line 1621, and no object allocated
NoSessions == [mem |-> <<>>, sessions |-> <<>>, actor |-> 0, ops |-> 0]

\* no solver call, no run of the trainer, no equity query, no twin hand and no
\* second session is followed
NothingApart ==
  /\ solver = SolverIdle
  /\ equity = EquityIdle
  /\ twin = TwinStart(0)
  /\ heap = NoSessions
  /\ bridge = BridgeStart(0)
  /\ runs = [r \in Runs |-> NewRun(1337, 0)]

\* a new session, whatever the process was started with
InitSession ==
  /\ humanSeat \in Seats
  /\ handCmp = NotEvaluated
  /\ state = newHandState
  /\ handIndex = 0
  /\ board = <<>>
  /\ resolved = FALSE
  /\ lastResult = NoResult
  /\ score = [wins |-> 0, losses |-> 0, ties |-> 0, net |-> 0]
  /\ ENGINE_DIAG = [board_invariant_warnings |-> 0, illegal_state_warnings |-> 0]
  /\ pc = "play"
  /\ caller = "new_game"
  /\ actions = <<>>
  /\ resp = Pending
  /\ rangeBeliefs = [i \in Seats |-> initialRangeBelief]
  /\ beliefSeat = -1
  /\ beliefCalls = 0
  /\ stats = ensureSessionStats
  /\ events = <<>>
  /\ rt_subgame = NoRt

\* the process started with the defaults
Init ==
  /\ InitSession
  /\ ENABLE_RT = TRUE
  /\ NothingApart

(* ---------------------------- playToHuman ------------------------------ *)
\* enforceBoardInvariant(sess) at the head of a loop iteration
LoopHead ==
  /\ board' = enforceBoardInvariant(state, board)
  /\ ENGINE_DIAG' = [ENGINE_DIAG EXCEPT !.board_invariant_warnings =
                       @ + enforceBoardWarnings(state, board)]

\* advanceStreet(sess)
advanceStreet ==
  /\ state' = advanceStreetState(state)
  /\ board' = advanceStreetBoard(state, board)
  /\ ENGINE_DIAG' = [ENGINE_DIAG EXCEPT !.board_invariant_warnings =
                       @ + enforceBoardWarnings(advanceStreetState(state),
                             IF state.streetIdx + 1 \in {1, 2, 3}
                             THEN BoardSlice(state.streetIdx + 3) ELSE board)]

\* while (!sess.state.terminal) fails: playToHuman returns
PlayTerminal ==
  /\ pc = "play"
  /\ state.terminal
  /\ pc' = "respond"
  /\ UNCHANGED <<state, humanSeat, handIndex, board, handCmp, resolved,
                 lastResult, score, ENGINE_DIAG, caller, actions, resp>>
  /\ UNCHANGED quietVars

\* if (bettingClosedAllIn(sess)): enter the runout loop
PlayClosedAllIn ==
  /\ pc = "play"
  /\ ~state.terminal
  /\ bettingClosedAllIn(state)
  /\ LoopHead
  /\ pc' = "runout"
  /\ UNCHANGED <<state, humanSeat, handIndex, handCmp, resolved, lastResult,
                 score, caller, actions, resp>>
  /\ UNCHANGED quietVars

\* while (!terminal && streetIdx < 3) advanceStreet(sess); break
PlayRunout ==
  /\ pc = "runout"
  /\ IF ~state.terminal /\ state.streetIdx < 3
     THEN advanceStreet /\ pc' = "runout"
     ELSE pc' = "respond" /\ UNCHANGED <<state, board, ENGINE_DIAG>>
  /\ UNCHANGED <<humanSeat, handIndex, handCmp, resolved, lastResult, score,
                 caller, actions, resp>>
  /\ UNCHANGED quietVars

\* if (needsStreetAdvance(sess) && streetIdx < 3) { advanceStreet; continue }
PlayAdvance ==
  /\ pc = "play"
  /\ ~state.terminal
  /\ ~bettingClosedAllIn(state)
  /\ needsStreetAdvance(state) /\ state.streetIdx < 3
  /\ state' = advanceStreetState(state)
  /\ board' = advanceStreetBoard(state, enforceBoardInvariant(state, board))
  /\ ENGINE_DIAG' = [ENGINE_DIAG EXCEPT !.board_invariant_warnings =
                       @ + enforceBoardWarnings(state, board)]
  /\ UNCHANGED <<humanSeat, handIndex, handCmp, resolved, lastResult, score,
                 pc, caller, actions, resp>>
  /\ UNCHANGED quietVars

\* if (sess.state.toAct === sess.humanSeat) break
PlayAwaitHuman ==
  /\ pc = "play"
  /\ ~state.terminal
  /\ ~bettingClosedAllIn(state)
  /\ ~(needsStreetAdvance(state) /\ state.streetIdx < 3)
  /\ state.toAct = humanSeat
  /\ LoopHead
  /\ pc' = "respond"
  /\ UNCHANGED <<state, humanSeat, handIndex, handCmp, resolved, lastResult,
                 score, caller, actions, resp>>
  /\ UNCHANGED quietVars

\* botAct(sess, {seat: toAct, apply: true}); actions.push(action)
\* playToHuman comes to its call of botAct
BotTurn ==
  /\ pc = "play"
  /\ ~state.terminal
  /\ ~bettingClosedAllIn(state)
  /\ ~(needsStreetAdvance(state) /\ state.streetIdx < 3)
  /\ state.toAct # humanSeat

\* botAct's decision d in the hand
PlayBotWith(d) ==
  /\ BotTurn
  /\ board' = enforceBoardInvariant(state, board)
  /\ state' = applyAction(state, d.action_index)
  /\ actions' = Append(actions, [seat |-> state.toAct,
                                 action_index |-> d.action_index])
  /\ ENGINE_DIAG' =
       [ENGINE_DIAG EXCEPT
          !.board_invariant_warnings = @ + enforceBoardWarnings(state, board),
          !.illegal_state_warnings = @ + d.warnings
                                       + applyActionWarnings(state, d.action_index)]
  /\ events' = events \o BotEvents(state.toAct, d.action_index)
  /\ pc' = IF state'.stack[0] <= 0 /\ state'.stack[1] <= 0
           THEN "bot_runout" ELSE "play"
  /\ UNCHANGED <<humanSeat, handIndex, handCmp, resolved, lastResult, score,
                 caller, resp>>

\* the hand under the bot's action, the opponent model not followed
PlayBot ==
  /\ BotTurn
  /\ \E d \in BotDecisions(state) : PlayBotWith(d)
  /\ UNCHANGED notFollowed
\* botAct lines 1562-1566: both stacks empty after the bot's action
BotRunout ==
  /\ pc = "bot_runout"
  /\ IF ~state.terminal /\ state.streetIdx < 3
     THEN advanceStreet /\ pc' = "bot_runout"
     ELSE pc' = "play" /\ UNCHANGED <<state, board, ENGINE_DIAG>>
  /\ UNCHANGED <<humanSeat, handIndex, handCmp, resolved, lastResult, score,
                 caller, actions, resp>>
  /\ UNCHANGED quietVars

(* ------------------- POST /api/new_game, /api/new_hand ----------------- *)
\* .then(() => res.json(buildPayload(hand, actions)))
NewRespond ==
  /\ pc = "respond"
  /\ caller \in {"new_game", "new_hand"}
  /\ resp' = buildPayload(state, humanSeat, handIndex, FALSE, NoResult)
  /\ pc' = "idle"
  /\ UNCHANGED <<state, humanSeat, handIndex, board, handCmp, resolved,
                 lastResult, score, ENGINE_DIAG, caller, actions>>
  /\ UNCHANGED quietVars

\* POST /api/new_hand up to the call of playToHuman
NewHand ==
  /\ pc = "idle"
  /\ handIndex + 1 < MaxHands
  /\ state' = newHandState
  /\ handIndex' = handIndex + 1
  /\ board' = <<>>
  /\ handCmp' = NotEvaluated
  /\ resolved' = FALSE
  /\ lastResult' = NoResult
  /\ actions' = <<>>
  /\ pc' = "play"
  /\ caller' = "new_hand"
  /\ resp' = Pending
  /\ rangeBeliefs' = [i \in Seats |-> initialRangeBelief]
  /\ events' = <<>>
  /\ UNCHANGED <<humanSeat, score, ENGINE_DIAG, beliefSeat, beliefCalls, stats>>
  /\ rt_subgame' = NoRt
  /\ UNCHANGED fixedVars

(* --------------------------- POST /api/action -------------------------- *)
\* Number(req.body.action_index): an integer, or NaN when the field is missing
\* or not numeric (a fractional index behaves as NaN does below: it passes the
\* range test and indexes nothing)
NotANumber == [nan |-> TRUE, n |-> 0]

\* action_index values a client sends
IdxInputs == {[nan |-> FALSE, n |-> i] : i \in -1 .. MaxLegal} \cup {NotANumber}

\* idx < 0 || idx >= legal.length, every comparison with NaN being false
BadIndex(idx, legal) == ~idx.nan /\ (idx.n < 0 \/ idx.n >= Len(legal))

\* if (sess.state.terminal): sess.lastResult || settleTerminal(sess)
TerminalResult(sess) ==
  IF sess.lastResult # NoResult
  THEN [sess |-> sess, result |-> sess.lastResult]
  ELSE settleTerminal(sess)

ActionOnTerminal ==
  /\ pc = "idle"
  /\ state.terminal
  /\ \E cmp \in (IF lastResult # NoResult THEN {handCmp} ELSE Comparisons(Sess)) :
       LET r == TerminalResult([Sess EXCEPT !.handCmp = cmp])
       IN  /\ state' = r.sess.state
           /\ handCmp' = cmp
           /\ resolved' = r.sess.resolved
           /\ lastResult' = r.sess.lastResult
           /\ score' = r.sess.score
           /\ resp' = buildPayload(r.sess.state, humanSeat, handIndex, TRUE, r.result)
  /\ actions' = <<>>
  /\ caller' = "action"
  /\ UNCHANGED <<humanSeat, handIndex, board, ENGINE_DIAG, pc>>
  /\ events' = <<>>
  /\ rt_subgame' = NoRt
  /\ UNCHANGED <<beliefVars, fixedVars>>

\* if (idx < 0 || idx >= legal.length): 400 bad action index
ActionReject(idx) ==
  /\ pc = "idle"
  /\ ~state.terminal
  /\ BadIndex(idx, legalActions(state))
  /\ resp' = ErrorResponse("bad action index")
  /\ caller' = "action"
  /\ UNCHANGED <<state, humanSeat, handIndex, board, handCmp, resolved,
                 lastResult, score, ENGINE_DIAG, pc, actions>>
  /\ events' = <<>>
  /\ rt_subgame' = NoRt
  /\ UNCHANGED <<beliefVars, fixedVars>>

\* the human's action is applied, then playToHuman is called
ActionAcceptWith(idx) ==
  /\ pc = "idle"
  /\ ~state.terminal
  /\ ~BadIndex(idx, legalActions(state))
  /\ ~idx.nan
  /\ LET humanAct == legalActions(state)[idx.n + 1]
     IN  /\ state' = applyAction(state, humanAct)
         /\ ENGINE_DIAG' = [ENGINE_DIAG EXCEPT !.illegal_state_warnings =
                              @ + applyActionWarnings(state, humanAct)]
         /\ events' = HumanEvents(humanSeat, state.toAct, humanAct)
  /\ actions' = <<>>
  /\ pc' = "play"
  /\ caller' = "action"
  /\ resp' = Pending
  /\ rt_subgame' = NoRt
  /\ UNCHANGED <<humanSeat, handIndex, board, handCmp, resolved, lastResult,
                 score>>

\* the hand under the human's action, the opponent model not followed
ActionAccept(idx) ==
  /\ ActionAcceptWith(idx)
  /\ UNCHANGED <<beliefVars, fixedVars>>

\* no response is sent for the request
Unanswered == ErrorResponse("unanswered")

\* humanAct = legal[NaN] is undefined: applyAction(state, undefined) takes the
\* default target (the commit), pays 0, resets consecutiveChecks and throws at
\* actionNames[act][0] (line 1291).  The async handler's promise is rejected
\* and nothing handles it: the request gets no answer, and the process goes on
\* or is ended by the unhandled rejection, as the runtime decides.
ActionThrow(idx) ==
  /\ pc = "idle"
  /\ ~state.terminal
  /\ ~BadIndex(idx, legalActions(state))
  /\ idx.nan
  /\ state' = [state EXCEPT !.consecutiveChecks = 0]
  /\ resp' = Unanswered
  /\ actions' = <<>>
  /\ caller' = "action"
  /\ pc' \in {"idle", "crashed"}
  /\ UNCHANGED <<humanSeat, handIndex, board, handCmp, resolved, lastResult,
                 score, ENGINE_DIAG>>
  /\ events' = HumanEvents(humanSeat, state.toAct, NoAct)
  /\ rt_subgame' = NoRt
  /\ UNCHANGED <<beliefVars, fixedVars>>

\* showdownReady that is never true
showdownReadyNever(st) == FALSE

showdownReady(st) ==
  /\ st.streetIdx = 3
  /\ \/ needsStreetAdvance(st)
     \/ bettingClosedAllIn(st)
     \/ st.stack[0] <= 0 /\ st.stack[1] <= 0

\* lines 1813-1827: after playToHuman, showdown, settle and respond
ActionFinish ==
  /\ pc = "respond"
  /\ caller = "action"
  /\ LET st1 == IF ~state.terminal /\ showdownReady(state)
                THEN [state EXCEPT !.terminal = TRUE] ELSE state
         s1 == [Sess EXCEPT !.state = st1]
     IN  \E cmp \in (IF st1.terminal THEN Comparisons(s1) ELSE {handCmp}) :
           LET r == IF st1.terminal
                    THEN settleTerminal([s1 EXCEPT !.handCmp = cmp])
                    ELSE [sess |-> s1, result |-> NoResult]
           IN  /\ state' = r.sess.state
               /\ handCmp' = cmp
               /\ resolved' = r.sess.resolved
               /\ lastResult' = r.sess.lastResult
               /\ score' = r.sess.score
               /\ resp' = buildPayload(r.sess.state, humanSeat, handIndex,
                                       r.sess.state.terminal, r.result)
  /\ pc' = "idle"
  /\ UNCHANGED <<humanSeat, handIndex, board, ENGINE_DIAG, caller, actions>>
  /\ UNCHANGED quietVars

(* ------------------------ POST /api/mirror_action ---------------------- *)
\* index of act in seq, from 0, or -1 (findIndex)
FindIndex(seq, act) ==
  IF Includes(seq, act)
  THEN (CHOOSE i \in 1..Len(seq) : seq[i] = act /\ \A j \in 1..(i - 1) : seq[j] # act) - 1
  ELSE -1

\* botAct answers a preview for the seat to act of a hand that is not over
Previewable(seat) == ~state.terminal /\ state.toAct = seat

\* no decision: botAct returned null or was not called
NoDecision == [action_index |-> NoAct, warnings |-> 0, rt_subgame |-> NoRt]

\* /api/mirror_action whose botAct applies the decision d as if apply were
\* not false
MirrorApplied(seat, d) ==
  /\ pc = "idle"
  /\ resp' = IF state.terminal
             THEN [ok |-> TRUE, error |-> "", terminal |-> TRUE, action_index |-> -1]
             ELSE IF state.toAct # seat
             THEN ErrorResponse("cannot_preview_action")
             ELSE LET localIdx == FindIndex(legalActions(applyAction(state, d.action_index)),
                                            d.action_index)
                  IN  IF localIdx < 0
                      THEN ErrorResponse("preview_not_legal")
                      ELSE [ok |-> TRUE, error |-> "", terminal |-> FALSE,
                            action_index |-> localIdx]
  /\ caller' = "mirror_action"
  /\ state' = IF Previewable(seat) THEN applyAction(state, d.action_index) ELSE state
  /\ UNCHANGED <<humanSeat, handIndex, board, handCmp, resolved,
                 lastResult, score, ENGINE_DIAG, pc, actions>>
  /\ events' = IF Previewable(seat) THEN PreviewEvents(seat) ELSE <<>>

\* /api/mirror_action with the decision d of botAct(sess, {seat, apply: false})
MirrorWith(seat, d) ==
  /\ pc = "idle"
  /\ resp' = IF state.terminal
             THEN [ok |-> TRUE, error |-> "", terminal |-> TRUE, action_index |-> -1]
             ELSE IF state.toAct # seat
             THEN ErrorResponse("cannot_preview_action")
             ELSE LET localIdx == FindIndex(legalActions(state), d.action_index)
                  IN  IF localIdx < 0
                      THEN ErrorResponse("preview_not_legal")
                      ELSE [ok |-> TRUE, error |-> "", terminal |-> FALSE,
                            action_index |-> localIdx]
  /\ caller' = "mirror_action"
  /\ UNCHANGED <<state, humanSeat, handIndex, board, handCmp, resolved,
                 lastResult, score, ENGINE_DIAG, pc, actions>>
  /\ events' = IF Previewable(seat) THEN PreviewEvents(seat) ELSE <<>>

MirrorAction(seat) ==
  /\ pc = "idle"
  /\ \E d \in (IF Previewable(seat) THEN BotDecisions(state) ELSE {NoDecision}) :
       MirrorWith(seat, d)
  /\ UNCHANGED notFollowed

(* ------------------------------ Next ---------------------------------- *)
Next ==
  \/ PlayTerminal
  \/ PlayClosedAllIn
  \/ PlayRunout
  \/ PlayAdvance
  \/ PlayAwaitHuman
  \/ PlayBot
  \/ BotRunout
  \/ NewRespond
  \/ ActionOnTerminal
  \/ \E idx \in IdxInputs : ActionReject(idx)
  \/ \E idx \in IdxInputs : ActionAccept(idx)
  \/ \E idx \in IdxInputs : ActionThrow(idx)
  \/ ActionFinish
  \/ \E seat \in Seats : MirrorAction(seat)

\* the first hand of the session
Spec == Init /\ [][Next]_vars

\* the session over its hands
SpecSession == Init /\ [][Next \/ NewHand]_vars


(* ------------------ the range beliefs under their updates -------------- *)
\* one call of updateRangeBeliefFromAction(sess, seat, act, toCallBefore)
BeliefUpdate(seat, act, toCallBefore) ==
  /\ beliefCalls < MaxBeliefUpdates
  /\ rangeBeliefs' = updateRangeBeliefFromAction(rangeBeliefs, seat, act, toCallBefore)
  /\ beliefSeat' = seat
  /\ beliefCalls' = beliefCalls + 1
  /\ UNCHANGED <<state, humanSeat, handIndex, board, handCmp, resolved,
                 lastResult, score, ENGINE_DIAG, pc, caller, actions, resp,
                 stats, events>>
  /\ UNCHANGED rtVars

NextBelief ==
  \E seat \in Seats, act \in DOMAIN actionNames, toCallBefore \in {0, BIG_BLIND * UNIT} :
    BeliefUpdate(seat, act - 1, toCallBefore)

SpecBelief == Init /\ [][NextBelief]_vars


(* --------------- the session with its opponent model ------------------- *)
\* botAct: getRangeBelief for the equity estimate (line 1447), which
\* normalises the beliefs of both seats in place, then the bot's action with
\* its belief update (lines 1559-1561)
PlayBotTracked ==
  /\ beliefCalls < MaxTracked
  /\ BotTurn
  /\ \E d \in BotDecisions(state) :
       /\ PlayBotWith(d)
       /\ rangeBeliefs' = updateRangeBeliefFromAction(ensureRangeBeliefs(rangeBeliefs),
                            state.toAct, d.action_index, ToCall(state, state.toAct))
  /\ beliefSeat' = state.toAct
  /\ beliefCalls' = beliefCalls + 1
  /\ UNCHANGED stats
  /\ UNCHANGED rtVars

\* /api/action lines 1783-1808: the human's action with the stats and the
\* belief update
ActionAcceptTracked(idx) ==
  /\ beliefCalls < MaxTracked
  /\ ActionAcceptWith(idx)
  /\ LET humanAct == legalActions(state)[idx.n + 1]
     IN  /\ stats' = recordStats(stats, state, humanSeat, humanAct)
         /\ rangeBeliefs' = updateRangeBeliefFromAction(rangeBeliefs, humanSeat,
                              humanAct, ToCall(state, humanSeat))
  /\ beliefSeat' = humanSeat
  /\ beliefCalls' = beliefCalls + 1
  /\ UNCHANGED fixedVars

\* /api/mirror_action with the beliefs: botAct previews only for the seat to
\* act of a running hand, and its getRangeBelief (line 1447) normalises the
\* beliefs of both seats in place
MirrorActionTracked(seat) ==
  /\ pc = "idle"
  /\ \E d \in (IF Previewable(seat) THEN BotDecisions(state) ELSE {NoDecision}) :
       MirrorWith(seat, d)
  /\ rangeBeliefs' = IF Previewable(seat) THEN ensureRangeBeliefs(rangeBeliefs)
                     ELSE rangeBeliefs
  /\ UNCHANGED <<beliefSeat, beliefCalls, stats, rtVars>>

NextNewHand ==
  \/ NewHand
  \/ PlayTerminal
  \/ PlayClosedAllIn
  \/ PlayRunout
  \/ PlayAdvance
  \/ PlayAwaitHuman
  \/ PlayBotTracked
  \/ BotRunout
  \/ NewRespond
  \/ ActionOnTerminal
  \/ \E idx \in IdxInputs : ActionReject(idx)
  \/ \E idx \in IdxInputs : ActionAcceptTracked(idx)
  \/ ActionFinish
  \/ \E seat \in Seats : MirrorActionTracked(seat)

\* the hands of a session, as far as MaxTracked actions
SpecNewHand == Init /\ [][NextNewHand]_vars

(* ------------- the hand with the realtime subgame's report ------------- *)
\* the bot's action with what it reports of the realtime subgame
PlayBotRt ==
  /\ BotTurn
  /\ \E d \in BotRuns(state, ENABLE_RT) :
       /\ PlayBotWith(d)
       /\ rt_subgame' = d.rt_subgame
  /\ UNCHANGED <<beliefVars, fixedVars>>

\* the preview with what it reports of the realtime subgame
MirrorActionRt(seat) ==
  /\ pc = "idle"
  /\ \E d \in (IF Previewable(seat) THEN BotRuns(state, ENABLE_RT) ELSE {NoDecision}) :
       /\ MirrorWith(seat, d)
       /\ rt_subgame' = d.rt_subgame
  /\ UNCHANGED <<beliefVars, fixedVars>>

\* the process started with ENABLE_RT set one way or the other
InitRt ==
  /\ InitSession
  /\ ENABLE_RT \in BOOLEAN
  /\ NothingApart

NextRt ==
  \/ PlayTerminal
  \/ PlayClosedAllIn
  \/ PlayRunout
  \/ PlayAdvance
  \/ PlayAwaitHuman
  \/ PlayBotRt
  \/ BotRunout
  \/ NewRespond
  \/ ActionOnTerminal
  \/ \E idx \in IdxInputs : ActionAccept(idx)
  \/ ActionFinish
  \/ \E seat \in Seats : MirrorActionRt(seat)

\* the hand under the requests that carry a valid action_index
SpecRt == InitRt /\ [][NextRt]_vars

(* ------------------------- model soundness ---------------------------- *)
\* every pot * 0.5 the engine computes is computed exactly by Half: the pot is
\* an even number of model units wherever a half-pot size is offered and
\* wherever a showdown may split it
HalvingExact ==
  /\ (\E a \in ToSet(legalActions(state)) :
        a = A.BET_HALF \/ (a = A.RAISE_HALF /\ state.streetIdx > 0))
       => state.pot % 2 = 0
  /\ (showdownReady(state) /\ state.winner \notin Seats) => state.pot % 2 = 0
  /\ (state.terminal /\ state.winner \notin Seats) => state.pot % 2 = 0

\* the doubles of the beliefs are zero or normal numbers with a 53-bit
\* significand: neither the subnormal range nor an overflow is reached
DoublesNormal ==
  \A i \in Seats : \A x \in {rangeBeliefs[i].weak, rangeBeliefs[i].medium,
                             rangeBeliefs[i].strong} :
    \/ x = FZero
    \/ /\ x.hi >= 2 ^ 22 /\ x.hi < 2 ^ 23
       /\ x.lo >= 0 /\ x.lo < W30
       /\ x.exp >= -1074 /\ x.exp <= 971

(* ------------------------------ claims -------------------------------- *)

\* C1: chip conservation. In every reachable state of a hand,
\* pot + stack[0] + stack[1] equals 2 * START_STACK.
ChipConservation ==
  state.pot + state.stack[0] + state.stack[1] = 2 * START_STACK * UNIT

\* C1 witness: a raise sized beyond the stack has been paid with the whole
\* stack
ChipConservationWitness ==
  /\ Len(state.history) > 0
  /\ state.history[Len(state.history)] = "r"
  /\ state.stack[1 - state.toAct] = 0
  /\ state.commit[1 - state.toAct] = state.currentBet

\* C2: every action the bot applies is a member of legalActions of the state
\* immediately before the action.
BotActionLegal ==
  [][Len(actions') > Len(actions) =>
       /\ actions'[Len(actions')].seat = state.toAct
       /\ actions'[Len(actions')].action_index \in ToSet(legalActions(state))
       /\ state' = applyAction(state, actions'[Len(actions')].action_index)]_vars

\* C2 witness: the bot has applied an action postflop, where the conservative
\* override runs, from the other seat than its first action of the request
BotActionLegalWitness ==
  /\ Len(actions) >= 2
  /\ actions[1].seat = 1 - humanSeat
  /\ state.streetIdx > 0
  /\ Len(state.history) > 0
  /\ state.history[Len(state.history)] \in {"b", "r", "c", "k"}
  /\ pc = "play"

\* C3: legalActions(state) is the reference list: nothing when terminal; with
\* to_call = max(0, current_bet - commit[to_act]): CHECK, plus when stack > 0
\* the two raises preflop or the two bets postflop and ALL_IN, when to_call is
\* 0; otherwise FOLD and CALL, plus the two raises when stack > to_call and
\* raises < MAX_RAISES, plus ALL_IN when stack > to_call.
LegalActionsReference ==
  LET p == state.toAct
      to_call == IF state.currentBet > state.commit[p]
                 THEN state.currentBet - state.commit[p] ELSE 0
      ref == IF state.terminal THEN {}
             ELSE IF to_call = 0
             THEN {A.CHECK} \cup
                  (IF state.stack[p] > 0
                   THEN (IF state.streetIdx = 0
                         THEN {A.RAISE_HALF, A.RAISE_POT}
                         ELSE {A.BET_HALF, A.BET_POT}) \cup {A.ALL_IN}
                   ELSE {})
             ELSE {A.FOLD, A.CALL} \cup
                  (IF state.stack[p] > to_call /\ state.raises < MAX_RAISES
                   THEN {A.RAISE_HALF, A.RAISE_POT} ELSE {}) \cup
                  (IF state.stack[p] > to_call THEN {A.ALL_IN} ELSE {})
      legal == legalActions(state)
  IN  /\ ToSet(legal) = ref
      /\ Len(legal) = Cardinality(ref)
      /\ (~state.terminal /\ to_call > 0 /\ state.raises >= MAX_RAISES) =>
           /\ A.RAISE_HALF \notin ToSet(legal) /\ A.RAISE_POT \notin ToSet(legal)
           /\ (A.ALL_IN \in ToSet(legal)) = (state.stack[p] > to_call)
      /\ to_call = 0 => A.CALL \notin ToSet(legal)
      /\ state.streetIdx = 0 =>
           A.BET_HALF \notin ToSet(legal) /\ A.BET_POT \notin ToSet(legal)

\* C3 witness: the raise cap is reached by a seat that faces a bet and has
\* more chips than the call
LegalActionsReferenceWitness ==
  /\ ~state.terminal
  /\ state.raises >= MAX_RAISES
  /\ ToCall(state, state.toAct) > 0
  /\ state.stack[state.toAct] > ToCall(state, state.toAct)

\* C4: in every reachable state, for each seat i,
\* 0 <= commit[i] <= current_bet and stack[i] >= 0.
CommitStackBounds ==
  \A i \in Seats :
    /\ 0 <= state.commit[i]
    /\ state.commit[i] <= state.currentBet
    /\ state.stack[i] >= 0

\* C4 witness: a seat has put its last chips in with a bet or an all-in that
\* the other seat has not yet answered
CommitStackBoundsWitness ==
  /\ ~state.terminal
  /\ state.stack[1 - state.toAct] = 0
  /\ state.commit[1 - state.toAct] = state.currentBet
  /\ state.commit[state.toAct] < state.currentBet

\* C5: in every reachable state, 0 <= raises <= MAX_RAISES.
RaisesBounded == 0 <= state.raises /\ state.raises <= MAX_RAISES

\* C6: on the river, once both seats have acted and their commitments are
\* matched, no seat takes a further betting action: the history of the hand
\* does not grow any more.
RiverClosedNoAction ==
  [][(state.streetIdx = 3 /\ ~state.terminal /\ needsStreetAdvance(state))
       => state'.history = state.history]_vars

\* C7: after new_game, new_hand and every accepted action request, either the
\* hand is terminal and the response reports terminal with a settled result,
\* or the hand is not terminal, to_act is the human seat and the response
\* offers a non-empty legal action list.
ResponseNeverStalled ==
  (pc = "idle" /\ caller \in {"new_game", "new_hand", "action"} /\ resp.ok) =>
    \/ /\ state.terminal
       /\ resp.terminal
       /\ resp.result # NoResult
       /\ resolved
    \/ /\ ~state.terminal
       /\ ~resp.terminal
       /\ state.toAct = humanSeat
       /\ resp.awaiting_human_action
       /\ Len(resp.legal_actions) > 0

\* C8 as stated: every street advance is taken from a state in which both
\* seats have acted and the commits are equal.
AdvanceOnlyWhenBothActed ==
  [][state'.streetIdx = state.streetIdx + 1 =>
       /\ state.acted[0] /\ state.acted[1]
       /\ state.commit[0] = state.commit[1]]_vars

\* C8 amended: every street advance is taken from a state with equal commits
\* in which either both seats have acted, or the hand is being run out all-in
\* (a stack is empty, no seat owes chips) and the previous advance of the
\* runout has just reset acted and the commits.
AdvanceOnlyWhenClosed ==
  [][state'.streetIdx = state.streetIdx + 1 =>
       /\ state.commit[0] = state.commit[1]
       /\ \/ state.acted[0] /\ state.acted[1]
          \/ /\ pc \in {"runout", "bot_runout"}
             /\ state.stack[0] <= 0 \/ state.stack[1] <= 0
             /\ ~state.acted[0] /\ ~state.acted[1]
             /\ state.streetIdx > 0
             /\ state.currentBet = 0
             /\ state.commit[0] = 0]_vars

\* C8 witness: an all-in runout has dealt the river, its last advance taken
\* from the turn it had dealt itself
AdvanceOnlyWhenClosedWitness ==
  /\ pc \in {"runout", "bot_runout"}
  /\ state.streetIdx = 3
  /\ state.stack[0] = 0 /\ state.stack[1] = 0
  /\ Len(state.history) <= 4

\* C9: once the hand is terminal, no operation changes its pot, stacks,
\* commits, current_bet, raises, street_idx, to_act or history.
TerminalAbsorbing ==
  [][state.terminal =>
       /\ state'.terminal
       /\ state'.pot = state.pot
       /\ state'.stack = state.stack
       /\ state'.commit = state.commit
       /\ state'.currentBet = state.currentBet
       /\ state'.raises = state.raises
       /\ state'.streetIdx = state.streetIdx
       /\ state'.toAct = state.toAct
       /\ state'.history = state.history]_vars

\* C9 witness: a mirror preview has been answered on a hand that is terminal
\* and settled
TerminalAbsorbingWitness ==
  /\ state.terminal
  /\ resolved
  /\ caller = "mirror_action"
  /\ resp.terminal

\* C10: settleTerminal is idempotent: settling a settled hand returns the same
\* result and leaves the score (and the session) as the first settling left it.
SettleIdempotent ==
  state.terminal =>
    \A cmp \in Comparisons(Sess) :
      LET first == settleTerminal([Sess EXCEPT !.handCmp = cmp])
          second == settleTerminal(first.sess)
      IN  /\ second.result = first.result
          /\ second.sess.score = first.sess.score
          /\ second.sess = first.sess

\* C10 witness: a hand settled at showdown with chips won or lost, on which a
\* further action request can be made
SettleIdempotentWitness ==
  /\ pc = "idle"
  /\ state.terminal
  /\ resolved
  /\ lastResult.terminal_type = "showdown"
  /\ score.net # 0
  /\ score.wins + score.losses + score.ties = 1

\* C11: for every legal action a of the state, after applyAction the actor's
\* commit equals actionTarget(state, a) (unchanged for FOLD and CHECK).
CommitEqualsTarget ==
  \A a \in ToSet(legalActions(state)) :
    applyAction(state, a).commit[state.toAct] = actionTarget(state, a)

\* C12: closed-but-all-in. Whenever a seat is all-in and neither seat owes
\* chips, no seat takes a further betting action (the history does not grow),
\* and when the request has been answered the river is dealt with its five
\* board cards, the hand is terminal and settled by showdown, and the response
\* reports it so instead of asking the human to act.
ClosedAllInShowdown ==
  [][/\ (/\ state.stack[0] = 0 \/ state.stack[1] = 0
         /\ state.commit[0] >= state.currentBet
         /\ state.commit[1] >= state.currentBet)
          => state'.history = state.history
     /\ (/\ state'.stack[0] = 0 \/ state'.stack[1] = 0
         /\ state'.commit[0] >= state'.currentBet
         /\ state'.commit[1] >= state'.currentBet
         /\ pc' = "idle")
          => /\ state'.terminal
             /\ state'.streetIdx = 3
             /\ board' = fullBoard
             /\ resolved'
             /\ lastResult'.terminal_type = "showdown"
             /\ caller' = "action" =>
                  /\ resp'.terminal
                  /\ ~resp'.awaiting_human_action
                  /\ resp'.result = lastResult']_vars

\* C12 witness: an all-in before the flop has been called, the board has been
\* run out and the hand settled by showdown in the answer to that request
ClosedAllInShowdownWitness ==
  /\ pc = "idle"
  /\ caller = "action"
  /\ state.stack[0] = 0 /\ state.stack[1] = 0
  /\ state.streetIdx = 3
  /\ Len(state.history) = 2
  /\ state.terminal /\ resolved
  /\ resp.terminal
  /\ score.net # 0

\* C13 as stated: human at seat 0, the bot at seat 1 goes all-in preflop
\* (raises = 1) and the human, whose turn it then is, folds: the hand is
\* terminal with winner 1,
\* human_payoff = -SMALL_BLIND, score.losses = 1 and score.net = -SMALL_BLIND.
FoldTerminalSmallBlind ==
  (/\ pc = "idle" /\ humanSeat = 0 /\ state.streetIdx = 0 /\ state.raises = 1
   /\ state.toAct = 0
   /\ Len(state.history) >= 2
   /\ state.history[Len(state.history) - 1] = "a"
   /\ state.history[Len(state.history)] = "f")
    => /\ state.terminal /\ resolved
       /\ state.winner = 1
       /\ lastResult.human_payoff = 0 - SMALL_BLIND * 100
       /\ score.losses = 1
       /\ score.net = 0 - SMALL_BLIND * UNIT

\* C13 amended: in that scenario the human has completed the small blind to
\* the big blind before the bot could act, and loses the big blind:
\* human_payoff = -BIG_BLIND, score.losses = 1 and score.net = -BIG_BLIND.
FoldTerminalBigBlind ==
  (/\ pc = "idle" /\ humanSeat = 0 /\ state.streetIdx = 0 /\ state.raises = 1
   /\ state.toAct = 0
   /\ Len(state.history) >= 2
   /\ state.history[Len(state.history) - 1] = "a"
   /\ state.history[Len(state.history)] = "f")
    => /\ state.history = <<"c", "a", "f">>
       /\ state.terminal /\ resolved
       /\ state.winner = 1
       /\ lastResult.terminal_type = "fold"
       /\ lastResult.winner = 1
       /\ lastResult.label = "You lose"
       /\ lastResult.human_payoff = 0 - BIG_BLIND * 100
       /\ score.wins = 0 /\ score.ties = 0
       /\ score.losses = 1
       /\ score.net = 0 - BIG_BLIND * UNIT

\* C13 witness: the human in seat 0 has folded to the bot's preflop all-in and
\* the request has been answered
FoldTerminalBigBlindWitness ==
  /\ pc = "idle" /\ humanSeat = 0 /\ caller = "action"
  /\ state.history = <<"c", "a", "f">>
  /\ state.raises = 1
  /\ resp.terminal

\* C14: settlement accounting. When a hand is settled, on a fold the non-folder
\* receives the whole pot, at showdown the higher hand receives the whole pot
\* and equal hands split it equally; each seat's payoff is its final stack less
\* START_STACK and the two payoffs sum to 0; score.net grows by exactly the
\* human's payoff and exactly one of wins, losses, ties grows by 1, by the
\* sign of the human's payoff.
SettlementAccounting ==
  [][(~resolved /\ resolved') =>
       LET folded == Len(state.history) > 0
                       /\ state.history[Len(state.history)] = "f"
           w == IF folded THEN 1 - state.toAct ELSE handCmp'
           share(i) == IF w \in Seats THEN (IF i = w THEN state.pot ELSE 0)
                       ELSE state.pot \div 2
           payoff(i) == state.stack[i] + share(i) - START_STACK * UNIT
           h == humanSeat
       IN  /\ w \in Seats \/ (w = -1 /\ state.pot % 2 = 0)
           /\ lastResult'.winner = w
           /\ lastResult'.terminal_type = (IF folded THEN "fold" ELSE "showdown")
           /\ \A i \in Seats :
                lastResult'.final_stacks[i] * UNIT
                  = 100 * (state.stack[i] + share(i))
           /\ payoff(0) + payoff(1) = 0
           /\ lastResult'.human_payoff * UNIT = 100 * payoff(h)
           /\ score'.net = score.net + payoff(h)
           /\ score'.wins = score.wins + (IF payoff(h) > 0 THEN 1 ELSE 0)
           /\ score'.losses = score.losses + (IF payoff(h) < 0 THEN 1 ELSE 0)
           /\ score'.ties = score.ties + (IF payoff(h) = 0 THEN 1 ELSE 0)
           /\ state'.pot = state.pot /\ state'.stack = state.stack]_vars

\* C14 witness: a showdown between equal hands has been settled, with more
\* than the blinds in the pot
SettlementAccountingWitness ==
  /\ resolved
  /\ lastResult.terminal_type = "showdown"
  /\ lastResult.winner = -1
  /\ handCmp = -1
  /\ score.ties = 1
  /\ state.pot > 2 * BIG_BLIND * UNIT

\* C15: an action request on a hand in play that is not taken up as a valid
\* index into the legal list (negative, >= legal_count, or no integer at all)
\* is answered 'bad action index' and leaves the session unchanged.
InvalidIndexRejected ==
  [][(pc = "idle" /\ ~state.terminal /\ caller' = "action" /\ pc' # "play") =>
       /\ resp' = ErrorResponse("bad action index")
       /\ pc' = "idle"
       /\ UNCHANGED <<state, humanSeat, handIndex, board, handCmp, resolved,
                      lastResult, score, ENGINE_DIAG>>]_vars

\* C16: total order within a hand. A human action is applied only when the
\* hand is not terminal and to_act is the human seat; the bot acts only when
\* to_act is not the human seat; and whenever a request has been answered on a
\* hand still in play the bot has no turn pending: to_act is the human seat, so
\* the bot has taken all its turns before the next human action is accepted.
HumanThenBotOrder ==
  [][/\ Len(state'.history) > Len(state.history) =>
          /\ ~state.terminal
          /\ IF Len(actions') > Len(actions)
             THEN /\ state.toAct # humanSeat
                  /\ actions'[Len(actions')].seat = state.toAct
                  /\ pc = "play"
             ELSE /\ state.toAct = humanSeat
                  /\ pc = "idle" /\ pc' = "play"
     /\ (pc' = "idle" /\ ~state'.terminal) => state'.toAct = humanSeat]_vars

\* C16 witness: answering one human action, the bot has closed a street with
\* a call and opened the next one, and the human is to act
HumanThenBotOrderWitness ==
  /\ pc = "idle" /\ caller = "action"
  /\ ~state.terminal
  /\ Len(actions) = 2
  /\ actions[1].action_index = A.CALL
  /\ state.streetIdx >= 1
  /\ state.toAct = humanSeat

\* C17: applyAction of any legal action on a hand in play makes the history
\* exactly one longer (the earlier entries kept), and no step other than an
\* applyAction (street advance, runout, settle, preview, rejected request)
\* changes the history.
HistoryGrowsByOne ==
  [][/\ \A a \in ToSet(legalActions(state)) :
          /\ Len(applyAction(state, a).history) = Len(state.history) + 1
          /\ SubSeq(applyAction(state, a).history, 1, Len(state.history))
               = state.history
     /\ state'.history # state.history =>
          /\ \E a \in ToSet(legalActions(state)) : state' = applyAction(state, a)
          /\ Len(state'.history) = Len(state.history) + 1
          /\ state'.streetIdx = state.streetIdx]_vars

\* C17 witness: a hand checked down to the river and settled: eight actions,
\* three street advances and a settlement, eight history entries
HistoryGrowsByOneWitness ==
  /\ resolved
  /\ state.streetIdx = 3
  /\ state.history = <<"c", "k", "k", "k", "k", "k", "k", "k">>

\* C18: the public board is always the prefix of the pre-dealt five-card
\* board whose length matches the street (0 preflop, 3 flop, 4 turn, 5 river),
\* and board_invariant_warnings is never incremented.
BoardMatchesStreet ==
  /\ Len(board) = (CASE state.streetIdx = 0 -> 0
                     [] state.streetIdx = 1 -> 3
                     [] state.streetIdx = 2 -> 4
                     [] state.streetIdx = 3 -> 5)
  /\ board = SubSeq(fullBoard, 1, Len(board))
  /\ ENGINE_DIAG.board_invariant_warnings = 0

\* C18 witness: the turn has been dealt in a hand still in play, after the
\* invariant was enforced at the head of the loop
BoardMatchesStreetWitness ==
  /\ pc = "idle"
  /\ ~state.terminal
  /\ state.streetIdx = 2
  /\ board = <<1, 2, 3, 4>>
  /\ Len(state.history) >= 4

\* C19: illegal_state_warnings is never incremented: in a hand in play no
\* legal action has a target below the actor's commit or leaves a negative
\* stack, commit or pot, and for every strength estimate and board texture
\* the bot's guards keep CALL when a bet is faced and CHECK when none is, so
\* the guarded list is never empty.
NoIllegalStateWarnings ==
  /\ ENGINE_DIAG.illegal_state_warnings = 0
  /\ ~state.terminal =>
       /\ \A a \in ToSet(legalActions(state)) :
            LET after == applyAction(state, a)
            IN  /\ actionTarget(state, NormalizedAct(state, a))
                     >= state.commit[state.toAct]
                /\ \A i \in Seats : after.stack[i] >= 0 /\ after.commit[i] >= 0
                /\ after.pot >= 0
       /\ \A hs \in HsValues, tex \in TexturesAt(state) :
            LET g == GuardedLegal(state, hs, tex)
            IN  /\ Len(g) > 0
                /\ Includes(g, IF ToCall(state, state.toAct) > 0
                               THEN A.CALL ELSE A.CHECK)

\* C19 witness: the bot, facing a bet it cannot fully cover or that puts it
\* all-in, called with its last chips, and no warning was raised
NoIllegalStateWarningsWitness ==
  /\ pc = "idle"
  /\ caller = "action"
  /\ Len(actions) >= 1
  /\ actions[1].action_index = A.CALL
  /\ state.stack[1 - humanSeat] = 0
  /\ state.stack[humanSeat] > 0
  /\ ENGINE_DIAG.illegal_state_warnings = 0


\* 0 <= x <= 1
InUnit(x) == ~x.neg /\ FLe(x, One)

\* |x - y| <= 1e-9
Near(x, y) ==
  /\ FLe(FSub(x, y), Epsilon)
  /\ FLe(FSub(y, x), Epsilon)

\* C20: after any updateRangeBeliefFromAction the acting seat's weak, medium
\* and strong are each in [0,1] and add up to exactly 1, and the beliefs of
\* the other seat are exactly what they were.
BeliefExactlyNormalized ==
  [][beliefCalls' > beliefCalls =>
       /\ InUnit(rangeBeliefs'[beliefSeat'].weak)
       /\ InUnit(rangeBeliefs'[beliefSeat'].medium)
       /\ InUnit(rangeBeliefs'[beliefSeat'].strong)
       /\ BeliefSum(rangeBeliefs'[beliefSeat']) = One
       /\ rangeBeliefs'[1 - beliefSeat'] = rangeBeliefs[1 - beliefSeat']]_vars

\* C20, amended: after any updateRangeBeliefFromAction the acting seat's
\* weak, medium and strong are each in [0,1] and add up to 1 within 1e-9,
\* and each weight of the other seat is within 1e-9 of what it was.
BeliefNormalizedWithinTolerance ==
  [][beliefCalls' > beliefCalls =>
       /\ InUnit(rangeBeliefs'[beliefSeat'].weak)
       /\ InUnit(rangeBeliefs'[beliefSeat'].medium)
       /\ InUnit(rangeBeliefs'[beliefSeat'].strong)
       /\ Near(BeliefSum(rangeBeliefs'[beliefSeat']), One)
       /\ Near(rangeBeliefs'[1 - beliefSeat'].weak, rangeBeliefs[1 - beliefSeat'].weak)
       /\ Near(rangeBeliefs'[1 - beliefSeat'].medium, rangeBeliefs[1 - beliefSeat'].medium)
       /\ Near(rangeBeliefs'[1 - beliefSeat'].strong,
               rangeBeliefs[1 - beliefSeat'].strong)]_vars

\* C20 witness: two updates of seat 0 took its strong weight below zero; it
\* was clamped, the weights were divided by their sum, and they no longer
\* add up to exactly 1
BeliefNormalizedWithinToleranceWitness ==
  /\ beliefCalls = 2
  /\ beliefSeat = 0
  /\ rangeBeliefs[0].strong = FZero
  /\ BeliefSum(rangeBeliefs[0]) # One
  /\ Near(BeliefSum(rangeBeliefs[0]), One)
  /\ rangeBeliefs[1] = initialRangeBelief


(* ------------------------------- C21 ----------------------------------- *)
\* the positions of the request's applyAction calls
Applies == {i \in 1..Len(events) : events[i].kind = "apply"}

\* the positions of the request's belief updates
Updates == {i \in 1..Len(events) : events[i].kind = "update"}

BotActRuns ==
  \/ Len(actions') = Len(actions) + 1
  \/ caller' = "mirror_action" /\ events' # <<>>

\* the policy's best entries among the legal actions
RtBest(probs, legal) ==
  {a \in ToSet(legal) : \A b \in ToSet(legal) : probs[b + 1] <= probs[a + 1]}

SolveStart ==
  /\ solver.pc = "idle"
  /\ \E legal \in SolverLegal, priorProbs \in SolverPriors, late \in BOOLEAN :
       solver' = [pc |-> "loop", legal |-> legal,
                  priorLegal |-> toLegalPrior(legal, priorProbs),
                  regrets |-> [i \in 1..Len(legal) |-> FZero],
                  strategySum |-> [i \in 1..Len(legal) |-> FZero],
                  iterations |-> 0, expired |-> late, probs |-> <<>>]
  /\ UNCHANGED <<serverVars, runs, equity, twin, heap, bridge>>

\* lines 946-982: an iteration, made while (Date.now() - start) < maxMs; the
\* clock decides whether another one follows
SolveIterate ==
  /\ solver.pc = "loop"
  /\ ~solver.expired
  /\ solver.iterations < MaxIterations
  /\ \E util \in [1..Len(solver.legal) -> SolverUtils], stop \in BOOLEAN :
       solver' = [RtIterate(solver, util) EXCEPT
                    !.expired = stop \/ solver.iterations + 1 = MaxIterations]
  /\ UNCHANGED <<serverVars, runs, equity, twin, heap, bridge>>

\* lines 984-998: the budget is used up and the policy is returned
SolveReturn ==
  /\ solver.pc = "loop"
  /\ solver.expired
  /\ solver' = [solver EXCEPT
                  !.pc = "done",
                  !.probs = RtProbs(RtPolicy(solver.legal, solver.strategySum,
                                             solver.priorLegal))]
  /\ UNCHANGED <<serverVars, runs, equity, twin, heap, bridge>>

NextSolver == SolveStart \/ SolveIterate \/ SolveReturn

SpecSolver == Init /\ [][NextSolver]_vars

\* the sum of the entries of a policy given by its digits
RECURSIVE DigitsSum(_)
DigitsSum(probs) == IF probs = <<>> THEN 0 ELSE Head(probs) + DigitsSum(Tail(probs))

\* C23 as stated: whenever the realtime subgame solver has returned, every
\* entry of its policy is at least 0, the entries of the actions outside the
\* legal list are 0, and the entries sum to 1
RtPolicySumsToOne ==
  solver.pc = "done" =>
    /\ \A a \in 1..Len(solver.probs) : solver.probs[a] >= 0
    /\ \A a \in 1..Len(solver.probs) :
         (a - 1) \notin ToSet(solver.legal) => solver.probs[a] = 0
    /\ DigitsSum(solver.probs) = 1000000

\* C23: whenever the realtime subgame solver has returned, every entry of its
\* policy is at least 0, the entries of the actions outside the legal list
\* are 0, and the entries sum to 1 within half a millionth per legal action,
\* the error of rounding each entry to six decimals
RtPolicyValidWithinRounding ==
  solver.pc = "done" =>
    /\ \A a \in 1..Len(solver.probs) : solver.probs[a] >= 0
    /\ \A a \in 1..Len(solver.probs) :
         (a - 1) \notin ToSet(solver.legal) => solver.probs[a] = 0
    /\ 2 * (DigitsSum(solver.probs) - 1000000) <= Len(solver.legal)
    /\ 2 * (1000000 - DigitsSum(solver.probs)) <= Len(solver.legal)

\* the solver has returned after two iterations a policy that gives weight to
\* several actions and whose digits do not sum to 1
RtPolicyValidWithinRoundingWitness ==
  /\ solver.pc = "done"
  /\ solver.iterations >= 2
  /\ Cardinality({a \in 1..Len(solver.probs) : solver.probs[a] > 0}) >= 2
  /\ DigitsSum(solver.probs) # 1000000


(* --------------------- two runs of the trainer --------------------------- *)
\* The runs are two processes that share nothing: their steps are taken in
\* turn, run 1 first.
Progress(t) == t.iter + (IF t.pc = "done" THEN 1 ELSE 0)

Turn(r) ==
  IF r = 1 THEN Progress(runs[1]) <= Progress(runs[2])
  ELSE Progress(runs[2]) < Progress(runs[1])

\* one iteration of the loop of train()
TrainIteration(r) ==
  /\ Turn(r)
  /\ runs[r].pc = "loop"
  /\ runs[r].iter < TARGET_ITERS
  /\ runs' = [runs EXCEPT ![r] = TrainBody(@)]
  /\ UNCHANGED <<serverVars, solver, equity, twin, heap, bridge>>

\* the loop is left, by its bound or by the break, and the file is written
TrainFinish(r) ==
  /\ Turn(r)
  /\ \/ runs[r].pc = "break"
     \/ runs[r].pc = "loop" /\ runs[r].iter >= TARGET_ITERS
  /\ runs' = [runs EXCEPT ![r] = Saved(@)]
  /\ UNCHANGED <<serverVars, solver, equity, twin, heap, bridge>>

\* two runs with the same seed, started at any two times
InitTrain ==
  /\ InitSession
  /\ ENABLE_RT = TRUE
  /\ solver = SolverIdle
  /\ equity = EquityIdle
  /\ twin = TwinStart(0)
  /\ heap = NoSessions
  /\ bridge = BridgeStart(0)
  /\ \E seed \in Seeds :
       runs \in [Runs -> {NewRun(seed, startedMs) : startedMs \in Starts}]

NextTrain == \E r \in Runs : TrainIteration(r) \/ TrainFinish(r)

SpecTrain == InitTrain /\ [][NextTrain]_vars


\* C25 as stated: the trainer records a checkpoint at every iteration number
\* that is a multiple of CHECKPOINT_EVERY, for every such iteration up to the
\* one the loop has reached
CheckpointAtEveryMultiple ==
  \A r \in Runs :
    \A k \in 1..runs[r].iter :
      k % CHECKPOINT_EVERY = 0 =>
        \E i \in 1..Len(runs[r].checkpoints) : runs[r].checkpoints[i].iter = k

\* the last three checkpoints of a list are comparable and flat: each has a
\* drift, no drift is above DRIFT_PLATEAU_THRESHOLD, and the largest and the
\* smallest aggregate EV differ, as doubles, by EV_PLATEAU_THRESHOLD at most
FlatLastThree(cps) ==
  /\ Len(cps) >= 3
  /\ \A i \in Len(cps) - 2 .. Len(cps) :
       /\ cps[i].policy_drift_avg_l1 # NoDrift
       /\ FLe(Millionth(cps[i].policy_drift_avg_l1), DRIFT_PLATEAU_THRESHOLD)
  /\ \A i, j \in Len(cps) - 2 .. Len(cps) :
       FLe(FSub(TenThousandth(cps[i].eval), TenThousandth(cps[j].eval)),
           EV_PLATEAU_THRESHOLD)

\* the checkpoint that ends the list qualifies for the plateau stop
PlateauAt(cps) ==
  /\ cps # <<>>
  /\ cps[Len(cps)].iter >= MIN_ITERS_BEFORE_STOP
  /\ FlatLastThree(cps)

\* C26: training stops with reason plateau_reached exactly at the first
\* checkpoint with iter >= MIN_ITERS_BEFORE_STOP at which the last 3
\* checkpoints each have a drift of at most DRIFT_PLATEAU_THRESHOLD and
\* aggregate EVs within EV_PLATEAU_THRESHOLD of each other; otherwise it runs
\* all TARGET_ITERS iterations and stops with target_iterations_reached. It
\* never stops on a plateau before MIN_ITERS_BEFORE_STOP or with fewer than 3
\* comparable checkpoints.
PlateauStopRule ==
  \A r \in Runs :
    LET t == runs[r]
        cps == t.checkpoints
    IN  /\ t.stopReason = "plateau_reached" <=> PlateauAt(cps)
        /\ \A k \in 1..Len(cps) - 1 : ~PlateauAt(SubSeq(cps, 1, k))
        /\ t.stopReason = "plateau_reached" =>
             /\ t.pc \in {"break", "done"}
             /\ t.iter = cps[Len(cps)].iter
        /\ t.pc = "break" => t.stopReason = "plateau_reached"
        /\ t.pc = "done" =>
             /\ t.saved.stop_reason = t.stopReason
             /\ t.stopReason \in {"plateau_reached", "target_iterations_reached"}
             /\ t.stopReason = "target_iterations_reached" => t.iter = TARGET_ITERS

\* a run has stopped on a plateau before its last iteration, after an earlier
\* checkpoint below MIN_ITERS_BEFORE_STOP or with flat drifts was passed
PlateauStopRuleWitness ==
  \E r \in Runs :
    /\ runs[r].pc = "done"
    /\ runs[r].saved.stop_reason = "plateau_reached"
    /\ runs[r].iter < TARGET_ITERS
    /\ Len(runs[r].checkpoints) > 3

\* C27 as stated: the policy written to the final strategy file equals the
\* average policy exported from the node table as it stands when training
\* stops
FinalPolicyIsCurrentAverage ==
  \A r \in Runs :
    runs[r].pc = "done" => runs[r].saved.policy = exportPolicy(runs[r].nodeMap)

\* the regrets of the node of a key, zeros when the table has none
RegretsOf(nodeMap, key) ==
  IF NodeIndex(nodeMap, key) = 0 THEN Zeros8
  ELSE nodeMap[NodeIndex(nodeMap, key)].regrets

\* the last event of a run's trace
LastEvent(t) == t.trace[Len(t.trace)]

\* C28 as stated: at the regret update of iteration t of the trainer, the
\* accumulated regret of each action is first multiplied by
\* t^1.5 / (t^1.5 + 1) when positive and by t^0.5 / (t^0.5 + 2) when
\* negative, and only then the iteration's regret u(a) - node_util is added
TrainerRegretsDiscounted ==
  [][\A r \in Runs :
       (runs'[r].trace # runs[r].trace /\ LastEvent(runs'[r]).kind = "traverser") =>
         LET e == LastEvent(runs'[r])
             t == runs'[r].iter
             old == RegretsOf(runs[r].nodeMap, e.key)
             new == RegretsOf(runs'[r].nodeMap, e.key)
         IN  \A i \in 1..Len(e.legal) :
               new[e.legal[i] + 1] =
                 FAdd(FMul(old[e.legal[i] + 1],
                           IF old[e.legal[i] + 1].neg THEN negDisc(t) ELSE posDisc(t)),
                      FSub(e.util[i], e.nodeUtil))]_vars

\* what of a run does not come from the clock: the timestamps of the
\* checkpoints and of the file are left out
Timeless(cps) == [i \in 1..Len(cps) |-> [cps[i] EXCEPT !.timestamp = 0]]

Core(t) ==
  [t EXCEPT !.startedMs = 0,
            !.checkpoints = Timeless(@),
            !.saved = IF t.pc # "done" THEN @
                      ELSE [@ EXCEPT !.started_at = 0, !.finished_at = 0,
                                     !.checkpoints = Timeless(@)]]

\* C30: two runs of the trainer with the same seed and parameters that have
\* made the same number of steps have dealt the same hands, sampled the same
\* actions, made the same node-table updates and produced the same
\* checkpoints with the same policies, the same stop reason and the same
\* final policy; they differ in timestamps at most
TrainingDeterministic ==
  Progress(runs[1]) = Progress(runs[2]) => Core(runs[1]) = Core(runs[2])

\* two runs started at different times have both written their files, after
\* checkpoints and after decisions of the traverser and of the other seat
TrainingDeterministicWitness ==
  /\ runs[1].pc = "done"
  /\ runs[2].pc = "done"
  /\ runs[1].startedMs # runs[2].startedMs
  /\ runs[1].saved # runs[2].saved
  /\ Len(runs[1].checkpoints) >= 2
  /\ \E i, j \in 1..Len(runs[1].trace) :
       runs[1].trace[i].kind = "traverser" /\ runs[1].trace[j].kind = "opponent"


(* ------------------ exportPolicy on a node table -------------------------- *)
\* strategy sums of an action, and the nodes of the two keys: a node that has
\* seen no action legal yet, as ensureNode leaves it, and nodes that have
\* seen the actions of their key's list, with any of the sums
ExportSums == {FZero, One, Two, FromInt(3), FDiv(One, FromInt(3))}

ExportNodes(key, legal) ==
  {[key |-> key, regrets |-> Zeros8, strategySum |-> Zeros8,
    legalSeen |-> [a \in 1..Len(actionNames) |-> FALSE], visits |-> 0]}
  \cup {[key |-> key, regrets |-> Zeros8, strategySum |-> Spread(legal, sums),
         legalSeen |-> [a \in 1..Len(actionNames) |->
                          \E i \in 1..Len(legal) : legal[i] = a - 1],
         visits |-> 1] : sums \in [1..Len(legal) -> ExportSums]}

ExportTables ==
  {<<n>> : n \in ExportNodes(Deals[2].key, Deals[2].legal)}
  \cup {<<n, m>> : n \in ExportNodes(Deals[2].key, Deals[2].legal),
                   m \in ExportNodes(Deals[3].key, Deals[3].legal)}

\* exportPolicy is applied to a node table
InitExport ==
  /\ InitSession
  /\ ENABLE_RT = TRUE
  /\ solver = SolverIdle
  /\ equity = EquityIdle
  /\ twin = TwinStart(0)
  /\ heap = NoSessions
  /\ bridge = BridgeStart(0)
  /\ \E table \in ExportTables :
       runs = [r \in Runs |->
                 IF r = 1 THEN [NewRun(1337, 0) EXCEPT !.pc = "export", !.nodeMap = table]
                 ELSE NewRun(1337, 0)]

ExportPolicy ==
  /\ runs[1].pc = "export"
  /\ runs' = [runs EXCEPT ![1].pc = "exported",
                          ![1].lastPolicy = exportPolicy(runs[1].nodeMap)]
  /\ UNCHANGED <<serverVars, solver, equity, twin, heap, bridge>>

SpecExport == InitExport /\ [][ExportPolicy]_vars

\* the entries of a policy are those of the nodes that have seen an action
\* legal; each is a vector of 8 that is zero on the actions never seen legal
\* and non-negative elsewhere, and uniform over the actions seen legal when
\* the strategy sum is zero
ExportedShape(nodeMap, policy) ==
  /\ \A j \in 1..Len(policy) : NodeIndex(nodeMap, policy[j].key) # 0
  /\ \A i \in 1..Len(nodeMap) :
       LET seen == ToSet(SeenFrom(nodeMap[i].legalSeen, 1))
           p == ProbsAt(policy, nodeMap[i].key)
       IN  IF seen = {} THEN ~HasKey(policy, nodeMap[i].key)
           ELSE /\ HasKey(policy, nodeMap[i].key)
                /\ Len(p) = Len(actionNames)
                /\ \A a \in 1..Len(p) : p[a] >= 0 /\ ((a - 1) \notin seen => p[a] = 0)
                /\ (\A a \in seen : IsZero(nodeMap[i].strategySum[a + 1])) =>
                     \A a, b \in seen : p[a + 1] = p[b + 1] /\ p[a + 1] > 0

\* C29 as stated: every entry of an exported policy is a vector of length 8
\* that is zero on the actions never seen legal, non-negative elsewhere and
\* sums to 1; it is uniform when the strategy sum is zero, and keys with no
\* legal action seen are omitted
ExportedSumsToOne ==
  runs[1].pc = "exported" =>
    /\ ExportedShape(runs[1].nodeMap, runs[1].lastPolicy)
    /\ \A j \in 1..Len(runs[1].lastPolicy) :
         DigitsSum(runs[1].lastPolicy[j].probs) = 100000000

\* C29: every entry of an exported policy is a vector of length 8 that is
\* zero on the actions never seen legal, non-negative elsewhere and sums to 1
\* within half of 10^-8 per action seen legal, the error of rounding each
\* entry to eight decimals; it is uniform when the strategy sum is zero, and
\* keys with no legal action seen are omitted
ExportedValidWithinRounding ==
  runs[1].pc = "exported" =>
    /\ ExportedShape(runs[1].nodeMap, runs[1].lastPolicy)
    /\ \A j \in 1..Len(runs[1].lastPolicy) :
         LET sum == DigitsSum(runs[1].lastPolicy[j].probs)
             seen == SeenFrom(runs[1].nodeMap[NodeIndex(runs[1].nodeMap,
                                                       runs[1].lastPolicy[j].key)].legalSeen, 1)
         IN  /\ 2 * (sum - 100000000) <= Len(seen)
             /\ 2 * (100000000 - sum) <= Len(seen)

\* a table of a node without a legal action seen and a node with unequal
\* strategy sums has been exported: one entry, whose digits do not sum to 1
ExportedValidWithinRoundingWitness ==
  /\ runs[1].pc = "exported"
  /\ Len(runs[1].nodeMap) = 2
  /\ Len(runs[1].lastPolicy) = 1
  /\ DigitsSum(runs[1].lastPolicy[1].probs) # 100000000
  /\ \E a, b \in 1..Len(actionNames) :
       0 < runs[1].lastPolicy[1].probs[a]
       /\ runs[1].lastPolicy[1].probs[a] < runs[1].lastPolicy[1].probs[b]



\* C37: the iteration count in the meta of the strategy file is the target
\* of the run when the run stopped with target_iterations_reached, and the
\* iteration of the checkpoint that detected the plateau when it stopped
\* with plateau_reached.
MetaIterationsMatchStop ==
  \A r \in Runs :
    runs[r].pc = "done" =>
      /\ runs[r].saved.stop_reason = "target_iterations_reached" =>
           runs[r].saved.iterations = TARGET_ITERS
      /\ runs[r].saved.stop_reason = "plateau_reached" =>
           /\ runs[r].saved.checkpoints # <<>>
           /\ runs[r].saved.iterations =
                runs[r].saved.checkpoints[Len(runs[r].saved.checkpoints)].iter


\* ---- the equity estimators, asked a bounded number of times ----

\* the server's botAct asks evalStrength (line 1448)
QueryEvalStrength(hand, cards, trials) ==
  /\ Len(equity.log) < MaxQueries
  /\ \E res \in evalStrength(hand, cards, trials) :
       equity' = [equity EXCEPT
                    !.log = Append(@, [est |-> "evalStrength", hero |-> hand,
                                       board |-> cards, trials |-> trials,
                                       eq |-> res.eq, rollouts |-> 1, cacheNo |-> 0])]
  /\ UNCHANGED <<serverVars, solver, runs, twin, heap, bridge>>

\* the trainer's cfr and chooseBlueprintAction ask estimateHsCached (lines
\* 448 and 598)
QueryEstimateHs(hand, cards, trials) ==
  /\ Len(equity.log) < MaxQueries
  /\ \E r \in {estimateHsCached(hand, cards, trials, equity.rng, equity.cache)} :
       equity' = [equity EXCEPT
                    !.cache = r.cache, !.rng = r.rng,
                    !.log = Append(@, [est |-> "estimateHsCached", hero |-> hand,
                                       board |-> cards, trials |-> trials,
                                       eq |-> r.hs, rollouts |-> r.rollouts,
                                       cacheNo |-> equity.cacheNo])]
  /\ UNCHANGED <<serverVars, solver, runs, twin, heap, bridge>>

\* the trainer's next hand starts with a new Map (lines 622 and 713)
NewEquityCache ==
  /\ equity.cache # {}
  /\ Len(equity.log) < MaxQueries
  /\ equity' = [equity EXCEPT !.cache = {}, !.cacheNo = @ + 1]
  /\ UNCHANGED <<serverVars, solver, runs, twin, heap, bridge>>

NextEquity ==
  \/ \E hand \in EquityHands, cards \in EquityBoards, trials \in EquityTrials :
       \/ QueryEvalStrength(hand, cards, trials)
       \/ QueryEstimateHs(hand, cards, trials)
  \/ NewEquityCache

SpecEquity == Init /\ [][NextEquity]_vars

\* two queries of the log ask the same estimator, with the same cache when
\* it takes one, about the same hero cards, board and trial count
SameQuery(i, j) ==
  /\ equity.log[i].est = equity.log[j].est
  /\ equity.log[i].cacheNo = equity.log[j].cacheNo
  /\ ToSet(equity.log[i].hero) = ToSet(equity.log[j].hero)
  /\ ToSet(equity.log[i].board) = ToSet(equity.log[j].board)
  /\ equity.log[i].trials = equity.log[j].trials

\* the second of two equal queries returns the value of the first and rolls
\* nothing out
CachedBetween(i, j) ==
  /\ equity.log[j].eq = equity.log[i].eq
  /\ equity.log[j].rollouts = 0

\* C31: asking an equity estimator twice about the same hero cards, the same
\* board and the same trial count, in any card order, returns the identical
\* eq and performs only one Monte-Carlo rollout, for the server's
\* evalStrength as for the trainer's estimateHsCached.
EquityCached ==
  \A i, j \in 1..Len(equity.log) : (i < j /\ SameQuery(i, j)) => CachedBetween(i, j)

\* the trainer's half of C31 on its own: with one cache, the second of two
\* equal queries of estimateHsCached returns the first one's value without a
\* rollout and without a draw from the generator
TrainerEquityCached ==
  \A i, j \in 1..Len(equity.log) :
    (i < j /\ SameQuery(i, j) /\ equity.log[i].est = "estimateHsCached") =>
      CachedBetween(i, j)


(* ------------------------- the preview's frame ------------------------- *)
\* a step of /api/mirror_action
MirrorStep == \E seat \in Seats : MirrorActionTracked(seat)

\* the hand, the score and the opponent's stats are as they were
HandUntouched ==
  /\ state' = state
  /\ board' = board
  /\ score' = score
  /\ stats' = stats
  /\ humanSeat' = humanSeat
  /\ handIndex' = handIndex
  /\ resolved' = resolved
  /\ lastResult' = lastResult

\* the index of an answered preview points into legalActions of the state
PreviewIndexValid ==
  (resp'.ok /\ ~resp'.terminal) =>
    resp'.action_index \in 0..(Len(legalActions(state')) - 1)

\* every weight of the range beliefs is within 10^-9 of what it was
BeliefsNear ==
  \A i \in Seats :
    /\ Near(rangeBeliefs'[i].weak, rangeBeliefs[i].weak)
    /\ Near(rangeBeliefs'[i].medium, rangeBeliefs[i].medium)
    /\ Near(rangeBeliefs'[i].strong, rangeBeliefs[i].strong)

\* C38 as stated: mirror_action leaves pot, stacks, commits, current_bet,
\* raises, acted, to_act, street, board, history, score, opponent stats and
\* range beliefs unchanged, and the action index it returns is a valid index
\* into legalActions of the current state
MirrorReadOnly ==
  [][MirrorStep => (HandUntouched /\ rangeBeliefs' = rangeBeliefs /\ PreviewIndexValid)]_vars

\* C38: mirror_action leaves pot, stacks, commits, current_bet, raises,
\* acted, to_act, street, board, history, score and opponent stats
\* unchanged, moves no weight of the range beliefs by more than 10^-9 (it
\* normalises them again), and the action index it returns is a valid index
\* into legalActions of the current state
MirrorKeepsHand ==
  [][MirrorStep => (HandUntouched /\ BeliefsNear /\ PreviewIndexValid)]_vars

\* a preview has been answered for the seat to act, and it has normalised
\* beliefs that two updates of one seat had left: they are still not what
\* normalising them once more gives
MirrorKeepsHandWitness ==
  /\ caller = "mirror_action"
  /\ resp.ok /\ ~resp.terminal
  /\ resp.action_index \in 0..(Len(legalActions(state)) - 1)
  /\ events = PreviewEvents(state.toAct)
  /\ beliefCalls >= 2
  /\ ensureRangeBeliefs(rangeBeliefs) # rangeBeliefs


(* ------------------------- equal effective stacks ---------------------- *)
\* a step in which the seat to act has acted
HandActed == Len(state'.history) = Len(state.history) + 1

\* what both seats have put into the hand, the current street included, is
\* the same amount short of what they started with
EqualContributions ==
  state.stack[0] + state.commit[0] = state.stack[1] + state.commit[1]

\* the seat to act can pay what it is to call, and has chips when a response
\* has left the hand waiting for it
CanCall ==
  ~state.terminal =>
    /\ state.stack[state.toAct] >= ToCall(state, state.toAct)
    /\ pc = "idle" => state.stack[state.toAct] > 0

\* a tie at showdown leaves both seats with what they started the hand with
TiePaysNothing ==
  (lastResult # NoResult /\ lastResult.terminal_type = "showdown"
   /\ lastResult.winner \notin Seats) =>
    /\ \A i \in Seats : lastResult.final_stacks[i] = ToFixed2(START_STACK * UNIT)
    /\ lastResult.human_payoff = ToFixed2(0)

\* a street begins with equal stacks, and a CALL, like an ALL_IN of a seat
\* facing a bet, pays the whole of to_call
NoShortCall ==
  /\ state'.streetIdx > state.streetIdx => state'.stack[0] = state'.stack[1]
  /\ HandActed =>
       /\ state.stack[state.toAct] > 0
       /\ state.stack[state.toAct] >= ToCall(state, state.toAct)
       /\ state'.history[Len(state'.history)] = "c" =>
            /\ state'.commit[state.toAct] = state.currentBet
            /\ state'.commit[0] = state'.commit[1]
       /\ state'.history[Len(state'.history)] = "a" =>
            state'.commit[state.toAct] >= state.currentBet

HandlerStep ==
  \/ PlayTerminal
  \/ PlayClosedAllIn
  \/ PlayRunout
  \/ PlayAdvance
  \/ PlayAwaitHuman
  \/ PlayBot
  \/ BotRunout
  \/ NewRespond
  \/ ActionFinish

\* a request of the human with a legal action, or one on the finished hand
HumanActs ==
  \/ \E idx \in IdxInputs : ActionAccept(idx)
  \/ ActionOnTerminal

NextHand ==
  \/ HandlerStep
  \/ HumanActs

\* the hand under legal requests: a handler runs to its response, and the
\* human goes on answering
SpecHandFair ==
  /\ Init
  /\ [][NextHand]_vars
  /\ WF_vars(HandlerStep)
  /\ WF_vars(\E idx \in IdxInputs : ActionAccept(idx))

\* a response never leaves the hand waiting at a betting round that is closed
\* before the river: both seats acted, equal commitments, nothing to call
ClosedRoundsAdvance ==
  (pc = "idle" /\ ~state.terminal /\ state.streetIdx < 3) =>
    ~(/\ state.acted[0] /\ state.acted[1]
      /\ state.commit[0] = state.commit[1]
      /\ state.currentBet <= state.commit[state.toAct])

\* C36: every hand terminates: along any sequence of legal human actions and
\* bot choices the hand has at most HandActionsBound actions, fewer than the
\* 64 human actions the self-play harness allows, a closed betting round is
\* never left waiting before the river, and the hand reaches a terminal
\* state; and the bot's auto-play loop of every request terminates, so every
\* request is answered.
HandTerminates ==
  /\ [](Len(state.history) <= HandActionsBound /\ HandActionsBound <= HARNESS_GUARD)
  /\ []ClosedRoundsAdvance
  /\ <>[]state.terminal
  /\ []<>(pc = "idle")

\* the longest hand: after the river's betting round was closed the bot has
\* bet again and again until the chips ran out
HandTerminatesWitness ==
  /\ state.terminal
  /\ pc = "idle"
  /\ Len(state.history) = HandActionsBound
  /\ state.streetIdx = 3


(* ------------------- settlement before the next hand ------------------- *)
\* the human's payoff in a hand that has ended by a fold: the seat that did
\* not fold takes the pot
FoldPayoff(st, h) ==
  (IF st.winner = h THEN st.stack[h] + st.pot ELSE st.stack[h]) - START_STACK * UNIT

\* C34: every hand that reaches a terminal state is settled exactly once
\* before the session moves to the next hand: at the session's first new_hand
\* score.wins + score.losses + score.ties is the number of hands that have
\* ended (1 when the hand is terminal, 0 when it is abandoned in play) and
\* score.net is the human's payoff over them.
SettledBeforeNextHand ==
  [][(handIndex = 0 /\ handIndex' = 1) =>
       /\ score.wins + score.losses + score.ties = (IF state.terminal THEN 1 ELSE 0)
       /\ (state.terminal /\ state.history[Len(state.history)] = "f")
            => score.net = FoldPayoff(state, humanSeat)
       /\ ~state.terminal => score.net = 0]_vars


(* ------------- the trainer's state machine and the engine's ------------ *)
\* applyAction of the trainer, lines 91-132
trainerApplyAction(st, act0) ==
  LET p == st.toAct
      o == 1 - p
      act == NormalizedAct(st, act0)
      target == actionTarget(st, act)
      pay == Max(0, target - st.commit[p])
      realPay == Min(pay, st.stack[p])
      paid == [st EXCEPT !.stack[p] = @ - realPay,
                         !.commit[p] = @ + realPay,
                         !.pot = @ + realPay,
                         !.history = Append(@, "x")]
      raised == [paid EXCEPT !.currentBet = paid.commit[p],
                             !.raises = @ + 1,
                             !.acted = [i \in Seats |-> i = p],
                             !.toAct = o]
  IN  CASE act = A.FOLD ->
             [st EXCEPT !.terminal = TRUE, !.winner = o,
                        !.history = Append(@, "f"), !.acted[p] = TRUE]
        [] act = A.CHECK ->
             [st EXCEPT !.history = Append(@, "k"), !.toAct = o, !.acted[p] = TRUE]
        [] act \in {A.CALL, A.ALL_IN} ->
             IF paid.commit[p] > paid.currentBet
             THEN raised
             ELSE [paid EXCEPT !.acted[p] = TRUE, !.toAct = o]
        [] OTHER -> raised

\* advanceStreet of the trainer, lines 150-161
trainerAdvanceStreet(st) ==
  [st EXCEPT !.streetIdx = @ + 1,
             !.street = streets[st.streetIdx + 2],
             !.board = BoardSlice(st.streetIdx + 3),
             !.currentBet = 0,
             !.commit = [i \in Seats |-> 0],
             !.raises = 0,
             !.acted = [i \in Seats |-> FALSE],
             !.toAct = 0]

\* while (!state.terminal && state.streetIdx < 3) advanceStreet(state, fullBoard)
RECURSIVE trainerRunout(_)
trainerRunout(st) ==
  IF ~st.terminal /\ st.streetIdx < 3 THEN trainerRunout(trainerAdvanceStreet(st)) ELSE st

\* maybeProgressState, lines 163-184 (needsStreetAdvance and bettingClosedAllIn
\* of the trainer, lines 134-148, read the same fields as the server's)
RECURSIVE maybeProgressState(_)
maybeProgressState(st) ==
  IF st.terminal THEN st
  ELSE IF bettingClosedAllIn(st)
       THEN LET r == trainerRunout(st)
            IN  IF r.streetIdx = 3 THEN [r EXCEPT !.terminal = TRUE, !.winner = -1] ELSE r
  ELSE IF needsStreetAdvance(st)
       THEN IF st.streetIdx < 3
            THEN maybeProgressState(trainerAdvanceStreet(st))
            ELSE [st EXCEPT !.terminal = TRUE, !.winner = -1]
  ELSE st

\* while (!sess.state.terminal && sess.state.streetIdx < 3) advanceStreet(sess)
RECURSIVE engineRunout(_)
engineRunout(st) ==
  IF ~st.terminal /\ st.streetIdx < 3 THEN engineRunout(advanceStreetState(st)) ELSE st

\* applyAction in the engine: by the action handler for the human (line 1809),
\* by botAct for the bot, which runs the board out when both stacks are empty
\* (lines 1561-1566)
engineApply(st, act, byBot) ==
  LET a == applyAction(st, act)
  IN  IF byBot /\ a.stack[0] <= 0 /\ a.stack[1] <= 0 THEN engineRunout(a) ELSE a

\* playToHuman (lines 1420-1438) from a state to the next action of a seat:
\* the state, and whether the loop has returned to the handler
RECURSIVE playToAction(_, _)
playToAction(st, h) ==
  IF st.terminal THEN [st |-> st, returned |-> TRUE]
  ELSE IF bettingClosedAllIn(st) THEN [st |-> engineRunout(st), returned |-> TRUE]
  ELSE IF needsStreetAdvance(st) /\ st.streetIdx < 3
       THEN playToAction(advanceStreetState(st), h)
  ELSE IF st.toAct = h THEN [st |-> st, returned |-> TRUE]
  ELSE [st |-> st, returned |-> FALSE]

\* the engine after an action: playToHuman, and when it has returned to
\* POST /api/action the showdown test of lines 1814-1821
engineProgress(st, h, handler) ==
  LET r == playToAction(st, h)
  IN  IF r.returned /\ handler = "action" /\ ~r.st.terminal /\ showdownReady(r.st)
      THEN [r.st EXCEPT !.terminal = TRUE]
      ELSE r.st

\* the actions the seat to act can take in the engine: the human any legal
\* action, the bot what botAct can pick
TwinActions ==
  IF twin.eng.toAct = twin.human
  THEN ToSet(legalActions(twin.eng))
  ELSE {d.action_index : d \in BotDecisions(twin.eng)}

\* street, pot, stacks, commits, current bet, raises, acted flags and seat to
\* act are the same in the two machines
TwinAgreeInPlay ==
  /\ twin.eng.streetIdx = twin.trn.streetIdx
  /\ twin.eng.street = twin.trn.street
  /\ twin.eng.pot = twin.trn.pot
  /\ twin.eng.stack = twin.trn.stack
  /\ twin.eng.commit = twin.trn.commit
  /\ twin.eng.currentBet = twin.trn.currentBet
  /\ twin.eng.raises = twin.trn.raises
  /\ twin.eng.acted = twin.trn.acted
  /\ twin.eng.toAct = twin.trn.toAct

\* and so is the terminal status
TwinAgree == TwinAgreeInPlay /\ twin.eng.terminal = twin.trn.terminal

\* one action applied to both machines, each followed by its own progress
TwinStep(act) ==
  /\ ~twin.eng.terminal
  /\ TwinAgree
  /\ act \in TwinActions
  /\ LET byBot == twin.eng.toAct # twin.human
         handler == IF byBot THEN twin.caller ELSE "action"
     IN  twin' = [eng |-> engineProgress(engineApply(twin.eng, act, byBot),
                                         twin.human, handler),
                  trn |-> maybeProgressState(trainerApplyAction(twin.trn, act)),
                  human |-> twin.human,
                  caller |-> handler,
                  last |-> act]
  /\ UNCHANGED <<serverVars, solver, runs, equity, heap, bridge>>

InitTwin ==
  /\ InitSession
  /\ ENABLE_RT = TRUE
  /\ solver = SolverIdle
  /\ equity = EquityIdle
  /\ runs = [r \in Runs |-> NewRun(1337, 0)]
  /\ twin = TwinStart(humanSeat)
  /\ heap = NoSessions
  /\ bridge = BridgeStart(0)

NextTwin == \E act \in 0..7 : TwinStep(act)

SpecTwin == InitTwin /\ [][NextTwin]_vars

\* C33: the trainer and the decision engine implement the same game state
\* machine: after each action of a sequence of legal actions from the
\* blinds-posted initial state, the trainer's state (applyAction and
\* maybeProgressState) and the engine's (applyAction and the street advance,
\* all-in runout and showdown logic of playToHuman and the action handler)
\* agree on street, pot, stacks, commits, current bet, raises, acted flags,
\* seat to act and terminal status.
TrainerMatchesEngine == TwinAgree

\* the two machines differ only where the river's betting round is closed and
\* the bot is to act: the trainer's hand is over, the engine's is not
TwinDiffersOnlyAtClosedRiver ==
  ~TwinAgree =>
    /\ twin.eng.streetIdx = 3 /\ needsStreetAdvance(twin.eng)
    /\ twin.eng.toAct # twin.human
    /\ twin.trn.terminal /\ ~twin.eng.terminal
    /\ TwinAgreeInPlay


(* --------------------- several sessions in the Map --------------------- *)
\* where new_game's object literal { wins: 0, losses: 0, ties: 0, net: 0 }
\* (line 1747) is put when top objects exist: a new object
ScoreAddressShared(top) == 1

ScoreAddress(top) == top + 1

\* a session with the objects it refers to read out of the heap
Deref(h, s) ==
  [humanSeat |-> s.humanSeat, handIndex |-> s.handIndex, handCmp |-> s.handCmp,
   resolved |-> s.resolved, lastResult |-> s.lastResult,
   state |-> h.mem[s.state], score |-> h.mem[s.score],
   stats |-> h.mem[s.stats], rangeBeliefs |-> h.mem[s.rangeBeliefs]]

SessionView(h, id) == Deref(h, h.sessions[id])

\* the handler's assignments to the session id and to the objects it refers
\* to, written through the references
Store(h, id, s, v) ==
  [mem |-> [a \in DOMAIN h.mem |->
              IF a = s.rangeBeliefs THEN v.rangeBeliefs
              ELSE IF a = s.stats THEN v.stats
              ELSE IF a = s.state THEN v.state
              ELSE IF a = s.score THEN v.score
              ELSE h.mem[a]],
   sessions |-> [i \in DOMAIN h.sessions |->
                   IF i = id
                   THEN [s EXCEPT !.handCmp = v.handCmp, !.resolved = v.resolved,
                                  !.lastResult = v.lastResult]
                   ELSE h.sessions[i]],
   actor |-> id,
   ops |-> h.ops + 1]

\* botAct with apply (lines 1559-1567) on a session read out of the heap
botApply(v0, act) ==
  CHOOSE r \in
    {[v EXCEPT !.rangeBeliefs = updateRangeBeliefFromAction(
                                  v.rangeBeliefs, v.state.toAct, act,
                                  ToCall(v.state, v.state.toAct)),
               !.state = engineApply(v.state, act, TRUE)] : v \in {v0}} : TRUE

\* the sessions playToHuman can leave (lines 1420-1438)
RECURSIVE playToHumanOutcomes(_)
playToHumanOutcomes(v0) ==
  UNION {IF r.returned THEN {[v0 EXCEPT !.state = r.st]}
         ELSE UNION {playToHumanOutcomes(w) :
                       w \in {botApply([v0 EXCEPT !.state = r.st], act) :
                                act \in {d.action_index : d \in BotDecisions(r.st)}}} :
           r \in {playToAction(v0.state, v0.humanSeat)}}

\* the human's action of POST /api/action applied, lines 1784-1809
humanApply(v, humanAct) ==
  [v EXCEPT !.stats = recordStats(v.stats, v.state, v.humanSeat, humanAct),
            !.rangeBeliefs = updateRangeBeliefFromAction(
                               v.rangeBeliefs, v.humanSeat, humanAct,
                               ToCall(v.state, v.humanSeat)),
            !.state = applyAction(v.state, humanAct)]

\* the showdown test and settlement of POST /api/action, lines 1813-1824
finishOutcomes(w) ==
  UNION {IF w1.state.terminal
         THEN {settleTerminal([w1 EXCEPT !.handCmp = cmp]).sess : cmp \in Comparisons(w1)}
         ELSE {w1} :
           w1 \in {IF ~w.state.terminal /\ showdownReady(w.state)
                   THEN [w EXCEPT !.state.terminal = TRUE] ELSE w}}

\* POST /api/action, lines 1771-1828
actionOutcomes(v, idx) ==
  IF v.state.terminal
  THEN {TerminalResult([v EXCEPT !.handCmp = cmp]).sess :
          cmp \in (IF v.lastResult # NoResult THEN {v.handCmp} ELSE Comparisons(v))}
  ELSE UNION {finishOutcomes(w) :
                w \in UNION {playToHumanOutcomes(a) :
                               a \in {humanApply(v, legalActions(v.state)[idx + 1])}}}

\* POST /api/mirror_action, lines 1722-1741: botAct without apply reads the
\* range beliefs through ensureRangeBeliefs
mirrorOutcome(v) ==
  IF v.state.terminal THEN v
  ELSE [v EXCEPT !.rangeBeliefs = ensureRangeBeliefs(v.rangeBeliefs)]

\* POST /api/new_game, lines 1743-1755: a new session id and new objects
SessionNewGame(h) ==
  /\ heap.ops < MaxSessionOps
  /\ Len(heap.sessions) < MaxSessions
  /\ LET top == Len(heap.mem)
         id == Len(heap.sessions) + 1
         s == [humanSeat |-> h, handIndex |-> 0, handCmp |-> NotEvaluated,
               resolved |-> FALSE, lastResult |-> NoResult,
               score |-> ScoreAddress(top), state |-> top + 2,
               rangeBeliefs |-> top + 3, stats |-> top + 4]
         fresh == [heap EXCEPT
                     !.mem = [a \in 1 .. top + 4 |->
                                IF a = s.score
                                THEN [wins |-> 0, losses |-> 0, ties |-> 0, net |-> 0]
                                ELSE IF a = s.state THEN newHandState
                                ELSE IF a = s.rangeBeliefs
                                THEN [i \in Seats |-> initialRangeBelief]
                                ELSE IF a = s.stats THEN ensureSessionStats
                                ELSE IF a <= top THEN heap.mem[a]
                                ELSE [wins |-> 0, losses |-> 0, ties |-> 0, net |-> 0]],
                     !.sessions = Append(@, s)]
     IN  \E f \in {fresh} :
           \E v \in playToHumanOutcomes(Deref(f, s)) : heap' = Store(f, id, s, v)
  /\ UNCHANGED <<serverVars, solver, runs, equity, twin, bridge>>

\* POST /api/new_hand, lines 1757-1769: a new hand object with the session's
\* id, score and stats
SessionNewHand(id) ==
  /\ heap.ops < MaxSessionOps
  /\ id \in DOMAIN heap.sessions
  /\ heap.sessions[id].handIndex + 1 < MaxHands
  /\ LET top == Len(heap.mem)
         old == heap.sessions[id]
         s == [old EXCEPT !.handIndex = @ + 1, !.handCmp = NotEvaluated,
                          !.resolved = FALSE, !.lastResult = NoResult,
                          !.state = top + 1, !.rangeBeliefs = top + 2]
         fresh == [heap EXCEPT
                     !.mem = @ \o <<newHandState, [i \in Seats |-> initialRangeBelief]>>,
                     !.sessions[id] = s]
     IN  \E f \in {fresh} :
           \E v \in playToHumanOutcomes(Deref(f, s)) : heap' = Store(f, id, s, v)
  /\ UNCHANGED <<serverVars, solver, runs, equity, twin, bridge>>

SessionAction(id, idx) ==
  /\ heap.ops < MaxSessionOps
  /\ id \in DOMAIN heap.sessions
  /\ \E v \in {SessionView(heap, id)} :
       /\ v.state.terminal \/ idx < Len(legalActions(v.state))
       /\ \E w \in actionOutcomes(v, idx) :
            heap' = Store(heap, id, heap.sessions[id], w)
  /\ UNCHANGED <<serverVars, solver, runs, equity, twin, bridge>>

SessionMirror(id) ==
  /\ heap.ops < MaxSessionOps
  /\ id \in DOMAIN heap.sessions
  /\ \E v \in {mirrorOutcome(SessionView(heap, id))} :
       heap' = Store(heap, id, heap.sessions[id], v)
  /\ UNCHANGED <<serverVars, solver, runs, equity, twin, bridge>>

NextSessions ==
  \/ \E h \in Seats : SessionNewGame(h)
  \/ \E id \in 1 .. MaxSessions : SessionNewHand(id)
  \/ \E id \in 1 .. MaxSessions, idx \in 0 .. MaxLegal - 1 : SessionAction(id, idx)
  \/ \E id \in 1 .. MaxSessions : SessionMirror(id)

SpecSessions == Init /\ [][NextSessions]_vars

\* the objects a session refers to
ObjectsOf(s) == {s.state, s.score, s.stats, s.rangeBeliefs}

\* no object is referred to by two sessions
SeparateObjects ==
  \A i, j \in DOMAIN heap.sessions :
    i # j => ObjectsOf(heap.sessions[i]) \cap ObjectsOf(heap.sessions[j]) = {}

\* a request leaves the hand state, score, stats and range beliefs of every
\* session but its own as they were
OthersUnchanged ==
  \A id \in DOMAIN heap.sessions :
    id # heap'.actor => SessionView(heap', id) = SessionView(heap, id)

\* C32: session isolation. Any operation on one session (new_game, new_hand,
\* action, mirror_action) leaves every other session's hand state, score,
\* opponent stats and range beliefs unchanged; and no session shares an object
\* with another, so that what an operation reads of its session is what that
\* session's own operations have written, whatever the other sessions did.
SessionIsolation == []SeparateObjects /\ [][OthersUnchanged]_vars

\* C32 witness: two sessions; the human of the first has lost a hand, then the
\* second session was created, and the first still has its score
SessionIsolationWitness ==
  /\ Len(heap.sessions) = 2
  /\ heap.actor = 2
  /\ SessionView(heap, 1).score.losses = 1
  /\ SessionView(heap, 1).score.net < 0
  /\ SessionView(heap, 2).score.losses = 0


(* ------------- the solver-bridge server's POST /api/action ------------- *)
\* one chip in the units of the solver-bridge hand
BridgeUnit == 2 ^ BridgeFracBits

\* legalActions, lines 102-122
bridgeLegalActions(st) ==
  IF st.terminal THEN <<>>
  ELSE
    LET p == st.toAct
        toCall == ToCall(st, p)
        stack == st.stack[p]
    IN  IF toCall <= 0
        THEN <<A.CHECK>> \o
             (IF stack > 0 THEN <<A.BET_HALF, A.BET_POT, A.ALL_IN>> ELSE <<>>)
        ELSE <<A.FOLD, A.CALL>> \o
             (IF stack > toCall /\ st.raises < MAX_RAISES
              THEN <<A.RAISE_HALF, A.RAISE_POT>> ELSE <<>>) \o
             (IF stack > toCall THEN <<A.ALL_IN>> ELSE <<>>)

\* actionTarget, lines 124-150
bridgeActionTarget(st, act) ==
  LET p == st.toAct
      toCall == ToCall(st, p)
  IN  CASE act \in {A.FOLD, A.CHECK} -> st.commit[p]
        [] act = A.CALL -> st.commit[p] + Min(st.stack[p], toCall)
        [] act = A.BET_HALF ->
             st.commit[p] + Min(st.stack[p], Max(BridgeUnit, Half(st.pot)))
        [] act = A.BET_POT -> st.commit[p] + Min(st.stack[p], Max(BridgeUnit, st.pot))
        [] act = A.RAISE_HALF ->
             st.currentBet + Min(st.stack[p], Max(toCall, Max(BridgeUnit, Half(st.pot))))
        [] act = A.RAISE_POT ->
             st.currentBet + Min(st.stack[p], Max(toCall, Max(BridgeUnit, st.pot)))
        [] act = A.ALL_IN -> st.commit[p] + st.stack[p]
        [] OTHER -> st.commit[p]

\* applyAction, lines 152-191, for an action of the list
bridgeApplyAction(st, act) ==
  LET p == st.toAct
      o == 1 - p
      paid == [commitChips(st, bridgeActionTarget(st, act) - st.commit[p]) EXCEPT
                 !.consecutiveChecks = 0,
                 !.history = Append(@, HistoryChar(act))]
      raised == [paid EXCEPT !.currentBet = paid.commit[p], !.raises = @ + 1,
                             !.toAct = o]
  IN  CASE act = A.FOLD ->
             [st EXCEPT !.terminal = TRUE, !.winner = o, !.history = Append(@, "f")]
        [] act = A.CHECK ->
             [st EXCEPT !.history = Append(@, "k"), !.consecutiveChecks = @ + 1,
                        !.toAct = o]
        [] act \in {A.CALL, A.ALL_IN} ->
             IF paid.commit[p] > paid.currentBet THEN raised
             ELSE [paid EXCEPT !.toAct = o]
        [] OTHER -> raised

\* applyAction(state, undefined), what legal[...] of an empty list gives: the
\* default target pays nothing, consecutiveChecks is reset, and
\* actionNames[undefined][0] throws (line 176)
bridgeApplyUndefined(st) == [st EXCEPT !.consecutiveChecks = 0]

\* needsStreetAdvance, lines 239-243
bridgeNeedsStreetAdvance(st) ==
  ToCall(st, st.toAct) <= 0 /\ st.consecutiveChecks >= 1

\* advanceStreet, lines 225-237
bridgeAdvanceStreet(st) ==
  [st EXCEPT !.streetIdx = @ + 1,
             !.street = streets[st.streetIdx + 2],
             !.currentBet = 0,
             !.commit = [i \in Seats |-> 0],
             !.raises = 0,
             !.consecutiveChecks = 0,
             !.toAct = 0]

\* if (!terminal && needsStreetAdvance(sess) && streetIdx < 3) advanceStreet(sess)
bridgeAdvanceIfClosed(st) ==
  IF ~st.terminal /\ bridgeNeedsStreetAdvance(st) /\ st.streetIdx < 3
  THEN bridgeAdvanceStreet(st) ELSE st

\* botAct, lines 245-270: the states it can leave, the pick being any legal
\* action (a sampled bucket decides whether FOLD is removed, Math.random or
\* the blueprint's weights pick among the rest); with nothing legal the pick
\* is undefined and applyAction throws
bridgeBotAct(st) ==
  IF bridgeLegalActions(st) = <<>>
  THEN {[st |-> bridgeApplyUndefined(st), thrown |-> TRUE]}
  ELSE {[st |-> bridgeApplyAction(st, a), thrown |-> FALSE] :
          a \in ToSet(bridgeLegalActions(st))}

\* the names the solver's output line can carry in chosen=
RtChosen == {"fold", "check", "call", "bet", "raise", "all_in", ""}

\* the crude mapping of lines 364-375
bridgePreferred(name, legalBot) ==
  LET want == CASE name = "fold" -> A.FOLD
                [] name = "check" -> A.CHECK
                [] name = "call" -> A.CALL
                [] name = "bet" -> A.BET_HALF
                [] name = "raise" -> A.RAISE_HALF
                [] name = "all_in" -> A.ALL_IN
                [] OTHER -> -1
  IN  IF want # -1 /\ Includes(legalBot, want) THEN want ELSE legalBot[1]

\* the loop of lines 351-398 from its test, as far as the await of
\* solveRealtime or the loop's end: the hand states it can come to, with
\* where the handler then is
RECURSIVE bridgeLoop(_, _)
bridgeAfterStep(st0, h) ==
  UNION {IF st.terminal \/ st.toAct = h THEN {[st |-> st, at |-> "tail"]}
         ELSE bridgeLoop(st, h) : st \in {bridgeAdvanceIfClosed(st0)}}

bridgeLoop(st, h) ==
  IF ~st.terminal /\ st.toAct # h
  THEN IF st.streetIdx > 0
       THEN {[st |-> st, at |-> "await"]}
       ELSE UNION {IF b.thrown THEN {[st |-> b.st, at |-> "thrown"]}
                   ELSE bridgeAfterStep(b.st, h) : b \in bridgeBotAct(st)}
  ELSE {[st |-> st, at |-> "tail"]}

\* the signs the human's showdown value can have (lines 405-413): it is
\* e * pot - commit[0] for seat 0, e the equity of a sampled bucket, and the
\* opposite for seat 1
ShowdownSigns(st, h) ==
  LET s0 == IF st.commit[0] <= 0 THEN {1} ELSE {-1, 0, 1}
  IN  IF h = 0 THEN s0 ELSE {0 - s : s \in s0}

\* lines 400-418: the last street advance, the showdown and the response
bridgeTail(b0, st0) ==
  UNION {IF ~st.terminal /\ st.streetIdx = 3 /\ bridgeNeedsStreetAdvance(st)
         THEN {[b0 EXCEPT !.state = [st EXCEPT !.terminal = TRUE],
                          !.score = [wins |-> @.wins + (IF s > 0 THEN 1 ELSE 0),
                                     losses |-> @.losses + (IF s < 0 THEN 1 ELSE 0),
                                     ties |-> @.ties + (IF s = 0 THEN 1 ELSE 0)]] :
                 s \in ShowdownSigns(st, b0.humanSeat)}
         ELSE {[b0 EXCEPT !.state = st]} : st \in {bridgeAdvanceIfClosed(st0)}}

\* the handler of request r from a point of its loop to its next await, its
\* response or its failure
bridgeRun(b0, r, outcomes) ==
  UNION {IF o.at = "tail"
         THEN {[b EXCEPT !.pc[r] = "done"] : b \in bridgeTail(b0, o.st)}
         ELSE {[b0 EXCEPT !.state = o.st,
                          !.pc[r] = IF o.at = "await" THEN "await" ELSE "failed"]} :
           o \in outcomes}

\* POST /api/action arrives, lines 337-351: the handler runs to its first
\* await or to its response
BridgeArrive(r, idx) ==
  /\ bridge.pc[r] = "new"
  /\ \A q \in 1 .. r - 1 : bridge.pc[q] # "new"
  /\ LET st == bridge.state
         legal == bridgeLegalActions(st)
         b0 == [bridge EXCEPT !.actor = r]
     IN  IF st.terminal \/ idx >= Len(legal)
         THEN bridge' = [b0 EXCEPT !.pc[r] = "done", !.applied = NotApplied]
         ELSE \E b \in bridgeRun([b0 EXCEPT !.applied = [human |-> TRUE, seat |-> st.toAct]],
                                 r,
                                 bridgeLoop(bridgeApplyAction(st, legal[idx + 1]),
                                            bridge.humanSeat)) :
                bridge' = b
  /\ UNCHANGED <<serverVars, solver, runs, equity, twin, heap>>

\* solveRealtime has settled, lines 355-398: resolved with a chosen name, or
\* rejected ("" standing for no usable name; rejected is its own case)
BridgeResume(r, name, rejected) ==
  /\ bridge.pc[r] = "await"
  /\ LET st == bridge.state
         legalBot == bridgeLegalActions(st)
         b0 == [bridge EXCEPT !.actor = r,
                              !.applied = [human |-> FALSE, seat |-> st.toAct]]
         steps == IF rejected
                  THEN bridgeBotAct(st)
                  ELSE IF legalBot = <<>>
                  THEN bridgeBotAct(bridgeApplyUndefined(st))
                  ELSE {[st |-> bridgeApplyAction(st, bridgePreferred(name, legalBot)),
                         thrown |-> FALSE]}
     IN  \E s \in steps :
           \E b \in bridgeRun(b0, r,
                              IF s.thrown THEN {[st |-> s.st, at |-> "thrown"]}
                              ELSE bridgeAfterStep(s.st, bridge.humanSeat)) :
             bridge' = b
  /\ UNCHANGED <<serverVars, solver, runs, equity, twin, heap>>

InitBridge ==
  /\ InitSession
  /\ ENABLE_RT = TRUE
  /\ solver = SolverIdle
  /\ equity = EquityIdle
  /\ runs = [r \in Runs |-> NewRun(1337, 0)]
  /\ twin = TwinStart(0)
  /\ heap = NoSessions
  /\ bridge = BridgeStart(humanSeat)

NextBridge ==
  \/ \E r \in 1 .. MaxRequests, idx \in 0 .. MaxLegal - 1 : BridgeArrive(r, idx)
  \/ \E r \in 1 .. MaxRequests, name \in RtChosen : BridgeResume(r, name, FALSE)
  \/ \E r \in 1 .. MaxRequests : BridgeResume(r, "", TRUE)

SpecBridge == InitBridge /\ [][NextBridge]_vars

\* a request is suspended on the solver, another one runs
RunsWhileSuspended ==
  \E r \in 1 .. MaxRequests : bridge.pc[r] = "await" /\ bridge'.actor # r

\* C39: in the solver-bridge variant of the action handler a session behaves
\* as a serial state machine: when an action request runs while another
\* request of the session is suspended on the solver, its action is not
\* applied while to_act is the bot's seat, and it does not update the hand
\* state the suspended request is in the middle of updating.
BridgeSerialSession ==
  [][RunsWhileSuspended =>
       /\ bridge'.applied.human => bridge'.applied.seat = bridge.humanSeat
       /\ bridge'.state = bridge.state]_vars

=============================================================================
